---- MODULE Spec2Model ----
(***************************************************************************)
(* Group 0 linearization: raft_group0_client (guards, command construction,*)
(* submission) and group0_state_machine (apply, transfer_snapshot,         *)
(* execute_group0_table_query), as implemented in                          *)
(*   src/service/raft/raft_group0_client.cc                                *)
(*   src/service/raft/group0_state_machine.cc                              *)
(***************************************************************************)
EXTENDS Integers, Sequences, FiniteSets, TLC

(***************************************************************************)
(* Bounds of the model.                                                    *)
(***************************************************************************)
\* api::new_timestamp() returns a value in 0..MaxClock; the clocks of the
\* nodes are not synchronised and may repeat or run backwards.
MaxClock == 1
\* events of a run: operations begun (start_operation, prepare_command(table_query)),
\* failures of the log (errors of add_entry and of the read barrier, aborts)
\* and snapshot transfers
MaxEvents == 3
\* operations begun by one proposer
MaxProcOps == 1
\* entries in the replicated log
MaxLog == 3
\* resubmissions of one command by one add_entry call
MaxAttempts == 1
\* SpecGen: calls of generate_group0_state_id, microseconds the clock shows
MaxGenCalls == 3
MaxGenClock == 2

\* SpecTake: snapshots taken in all
MaxSnapshots == 1

\* table queries issued where the k/v table and the results are examined
MaxKVOps == 2

(***************************************************************************)
(* The cluster: two nodes, two proposers on n1 and one on n2.              *)
(***************************************************************************)
Nodes == {"n1", "n2"}
Procs == {"p1", "p2", "p3"}
NodeOf(p) == IF p = "p3" THEN "n2" ELSE "n1"
\* the random tail of the timeuuids a proposer generates: the tails of two
\* proposers differ, so that no two of them generate the same ID
TailOf(p) == CASE p = "p1" -> 1 [] p = "p2" -> 2 [] OTHER -> 3
ProcsOn(n) == {p \in Procs : NodeOf(p) = n}

Keys == {"k"}
Values == {"v0", "v1", "v2"}

(***************************************************************************)
(* State IDs: timeuuids, ordered by microsecond timestamp, then by the     *)
(* random tail.  utils::UUID{} is 0.                                       *)
(***************************************************************************)
ZeroUUID == 0
Nullopt == -1
TailBase == Cardinality(Procs) + 1

micros_timestamp(id) == id \div TailBase
get_random_time_UUID_from_micros(ts, tail) == ts * TailBase + tail

\* a generator that does not step over the lower bound
generate_group0_state_id_no_step(prev_state_id, now, tail) ==
    LET lower_bound == micros_timestamp(prev_state_id)
        ts == IF prev_state_id # ZeroUUID /\ now <= lower_bound
              THEN lower_bound ELSE now
    IN get_random_time_UUID_from_micros(ts, tail)

generate_group0_state_id(prev_state_id, now, tail) ==
    LET lower_bound == micros_timestamp(prev_state_id)
        ts == IF prev_state_id # ZeroUUID /\ now <= lower_bound
              THEN lower_bound + 1 ELSE now
    IN get_random_time_UUID_from_micros(ts, tail)

(***************************************************************************)
(* The history table system.group0_history: rows keyed by state_id.        *)
(* A history is kept as the sequence of its rows in the order they were    *)
(* written; a mutation for a state_id that has a row leaves it as it is.   *)
(***************************************************************************)
RangeOf(s) == {s[i] : i \in 1..Len(s)}
MaxOf(S) == CHOOSE x \in S : \A y \in S : y <= x

get_last_group0_state_id(h) == IF h = <<>> THEN ZeroUUID ELSE MaxOf(RangeOf(h))
group0_history_contains(h, id) == id \in RangeOf(h)
mutate_history_lost(h, id) == h

\* the history after the mutation that appends state ID id (an upsert)
mutate_history(h, id) == IF id \in RangeOf(h) THEN h ELSE Append(h, id)

RECURSIVE merge_history(_, _)
merge_history(h, m) ==
    IF m = <<>> THEN h ELSE merge_history(mutate_history(h, Head(m)), Tail(m))

(***************************************************************************)
(* Commands, guards, queries.                                              *)
(***************************************************************************)
NoQuery == [type |-> "none", key |-> "", new_value |-> "", value_condition |-> ""]
select_query(k) == [type |-> "select", key |-> k, new_value |-> "", value_condition |-> ""]
\* value_condition "" stands for std::nullopt (an unconditional update)
update_query(k, v, c) == [type |-> "update", key |-> k, new_value |-> v, value_condition |-> c]

Queries == {select_query(k) : k \in Keys}
           \cup {update_query(k, v, c) : k \in Keys, v \in Values, c \in {"", "v0"}}
\* the query the proposers of the specification Spec submit
CoreQueries == {update_query("k", "v1", "")}

(***************************************************************************)
(* raft::group0_tables: the CQL statements handed to the query compiler.   *)
(* A statement is kept by what compile looks at: its class, the table it   *)
(* depends on, its selection, its partition-key restrictions, its column   *)
(* operations and its conditions.                                          *)
(***************************************************************************)
\* a restriction `column op rhs`; binary is FALSE when it is no binary_operator
Restriction(binary, column, op, rhs) ==
    [binary |-> binary, column |-> column, op |-> op, rhs |-> rhs, value |-> "k"]
KeyEq == Restriction(TRUE, "partition_key", "EQ", "constant")
Restrictions ==
    {KeyEq,
     Restriction(FALSE, "partition_key", "EQ", "constant"),
     Restriction(TRUE, "partition_key", "IN", "constant"),
     Restriction(TRUE, "partition_key", "LT", "constant"),
     Restriction(TRUE, "partition_key", "EQ", "bind_marker"),
     Restriction(TRUE, "regular", "EQ", "constant"),
     Restriction(TRUE, "none", "EQ", "constant")}
\* get_partition_key_restrictions(): a conjunction of restrictions, or not
PartitionKeyRestrictions ==
    {[conjunction |-> FALSE, children |-> <<>>],
     [conjunction |-> TRUE, children |-> <<>>],
     [conjunction |-> TRUE, children |-> <<KeyEq, KeyEq>>]}
    \cup {[conjunction |-> TRUE, children |-> <<r>>] : r \in Restrictions}
\* get_selection(): is_trivial() and the columns
Selections ==
    {[trivial |-> TRUE, columns |-> <<"value">>],
     [trivial |-> FALSE, columns |-> <<"value">>],
     [trivial |-> TRUE, columns |-> <<"key">>],
     [trivial |-> TRUE, columns |-> <<"key", "value">>]}
\* get_column_operations(): each with an expression, or none
Operation(expression) == [expression |-> expression, value |-> "v1"]
ColumnOperations ==
    {<<>>, <<Operation("constant")>>, <<Operation("none")>>,
     <<Operation("bind_marker")>>, <<Operation("constant"), Operation("constant")>>}
\* get_regular_conditions(): each `value op rhs`
Condition(op, rhs) == [op |-> op, rhs |-> rhs, value |-> "v0"]
RegularConditions ==
    {<<>>, <<Condition("EQ", "constant")>>, <<Condition("NEQ", "constant")>>,
     <<Condition("EQ", "none")>>, <<Condition("EQ", "bind_marker")>>,
     <<Condition("EQ", "constant"), Condition("EQ", "constant")>>}

Statement(class, depends_on, selection, restrictions, operations, conditions) ==
    [class |-> class, depends_on_group0_kv_store |-> depends_on,
     selection |-> selection, partition_key_restrictions |-> restrictions,
     column_operations |-> operations, regular_conditions |-> conditions]
NoSelection == [trivial |-> FALSE, columns |-> <<>>]
NoStatement ==
    Statement("none", FALSE, NoSelection, [conjunction |-> FALSE, children |-> <<>>],
              <<>>, <<>>)
Statements ==
    {Statement("primary_key_select_statement", d, sel, r, <<>>, <<>>) :
        d \in BOOLEAN, sel \in Selections, r \in PartitionKeyRestrictions}
    \cup {Statement("modification_statement", d, NoSelection, r, o, c) :
        d \in BOOLEAN, r \in PartitionKeyRestrictions, o \in ColumnOperations,
        c \in RegularConditions}
    \cup {Statement("other", d, NoSelection, [conjunction |-> TRUE, children |-> <<KeyEq>>],
                    <<>>, <<>>) : d \in BOOLEAN}

\* what a helper of compile returns: a value, or unsupported_operation_error
Returns(v) == [unsupported_operation_error |-> FALSE, value |-> v]
Throws == [unsupported_operation_error |-> TRUE, value |-> ""]

is_select_all_statement(statement) ==
    /\ statement.class = "primary_key_select_statement"
    /\ statement.partition_key_restrictions.conjunction
    /\ Len(statement.partition_key_restrictions.children) = 0

\* a test that takes every statement on the table
is_group0_table_statement_with_scans(statement) ==
    statement.depends_on_group0_kv_store

is_group0_table_statement(statement) ==
    statement.depends_on_group0_kv_store /\ ~is_select_all_statement(statement)

\* a get_key that looks at the first restriction only
get_key_of_first(partition_key_restrictions) ==
    IF ~partition_key_restrictions.conjunction
       \/ Len(partition_key_restrictions.children) = 0
    THEN Throws
    ELSE LET key_restriction == partition_key_restrictions.children[1] IN
         IF ~key_restriction.binary THEN Throws
         ELSE Returns(key_restriction.value)

get_key(partition_key_restrictions) ==
    IF ~partition_key_restrictions.conjunction
       \/ Len(partition_key_restrictions.children) # 1
    THEN Throws
    ELSE LET key_restriction == partition_key_restrictions.children[1] IN
         IF ~key_restriction.binary THEN Throws
         ELSE IF \/ key_restriction.column # "partition_key"
                 \/ key_restriction.rhs # "constant"
                 \/ key_restriction.op # "EQ"
              THEN Throws
              ELSE Returns(key_restriction.value)

is_selecting_only_value(selection) ==
    /\ selection.trivial
    /\ Len(selection.columns) = 1
    /\ selection.columns[1] = "value"

get_new_value(column_operations) ==
    IF Len(column_operations) # 1 THEN Throws
    ELSE IF column_operations[1].expression = "none" THEN Throws
    ELSE IF column_operations[1].expression # "constant" THEN Throws
    ELSE Returns(column_operations[1].value)

\* "" is std::nullopt
get_value_condition(regular_conditions) ==
    IF Len(regular_conditions) = 0 THEN Returns("")
    ELSE IF Len(regular_conditions) > 1 THEN Throws
    ELSE LET condition == regular_conditions[1] IN
         IF condition.rhs = "none" \/ condition.op # "EQ" THEN Throws
         ELSE IF condition.rhs # "constant" THEN Throws
         ELSE Returns(condition.value)

\* the query compile returns, or unsupported_operation_error
Compiled(q) == [unsupported_operation_error |-> FALSE, query |-> q]
CompileThrows == [unsupported_operation_error |-> TRUE, query |-> NoQuery]

compile(statement) ==
    IF statement.class = "primary_key_select_statement"
    THEN IF ~is_selecting_only_value(statement.selection) THEN CompileThrows
         ELSE LET key == get_key(statement.partition_key_restrictions) IN
              IF key.unsupported_operation_error THEN CompileThrows
              ELSE Compiled(select_query(key.value))
    ELSE IF statement.class = "modification_statement"
    THEN LET key == get_key(statement.partition_key_restrictions)
             new_value == get_new_value(statement.column_operations)
             value_condition == get_value_condition(statement.regular_conditions)
         IN IF \/ key.unsupported_operation_error
               \/ new_value.unsupported_operation_error
               \/ value_condition.unsupported_operation_error
            THEN CompileThrows
            ELSE Compiled(update_query(key.value, new_value.value, value_condition.value))
    ELSE CompileThrows

\* compile was not called
NotCompiled == [unsupported_operation_error |-> FALSE, query |-> NoQuery]

\* no statement yet
NoCompiled ==
    [statement |-> NoStatement, is_group0_table_statement |-> FALSE,
     compile |-> NotCompiled]

NoGuard == [operation_mutex_holder |-> 0, read_apply_mutex_holder |-> 0,
            observed_group0_state_id |-> ZeroUUID, new_group0_state_id |-> ZeroUUID]
NoCmd == [change |-> "none", query |-> NoQuery, history_append |-> ZeroUUID,
          prev_state_id |-> Nullopt, new_state_id |-> ZeroUUID, creator |-> ""]

\* a schema-change command that leaves prev_state_id disengaged
prepare_command_schema_no_prev(g, n) ==
    [change |-> "schema_change", query |-> NoQuery,
     history_append |-> g.new_group0_state_id,
     prev_state_id |-> Nullopt,
     new_state_id |-> g.new_group0_state_id,
     creator |-> n]

\* prepare_command(schema_change, guard, description)
prepare_command_schema(g, n) ==
    [change |-> "schema_change", query |-> NoQuery,
     history_append |-> g.new_group0_state_id,
     prev_state_id |-> g.observed_group0_state_id,
     new_state_id |-> g.new_group0_state_id,
     creator |-> n]

\* a table-query command whose history mutation carries no state ID
prepare_command_query_no_append(q, new_id, n) ==
    [change |-> "table_query", query |-> q,
     history_append |-> ZeroUUID,
     prev_state_id |-> Nullopt,
     new_state_id |-> new_id,
     creator |-> n]

\* a table-query command with an engaged prev_state_id
prepare_command_query_with_prev(q, new_id, n) ==
    [change |-> "table_query", query |-> q,
     history_append |-> new_id,
     prev_state_id |-> ZeroUUID,
     new_state_id |-> new_id,
     creator |-> n]

\* prepare_command(table_query)
prepare_command_query(q, new_id, n) ==
    [change |-> "table_query", query |-> q,
     history_append |-> new_id,
     prev_state_id |-> Nullopt,
     new_state_id |-> new_id,
     creator |-> n]

(***************************************************************************)
(* The k/v table system.group0_kv_store and execute_group0_table_query.    *)
(***************************************************************************)
NoCell == [present |-> FALSE, value |-> "", ts |-> 0]
EmptyStore == [k \in Keys |-> NoCell]

query_result_none == [type |-> "none", value |-> ""]
\* value "" is the disengaged bytes_opt
query_result_select(v) == [type |-> "select", value |-> v]

\* a timestamp taken from the state ID alone
update_timestamp_of_state_id(old_ts, new_state_id) == micros_timestamp(new_state_id)

\* struct query_result_conditional_update
query_result_conditional_update(is_applied, previous_value) ==
    [type |-> "conditional_update", is_applied |-> is_applied,
     previous_value |-> previous_value]

\* the timestamp of the cell an update_query writes over an existing cell
update_timestamp(old_ts, new_state_id) ==
    LET from_state_id == micros_timestamp(new_state_id)
    IN IF from_state_id >= old_ts + 1 THEN from_state_id ELSE old_ts + 1

\* an update that does not look at value_condition
execute_group0_table_query_store_unconditional(store, q, c) ==
    IF q.type = "update"
    THEN [store EXCEPT ![q.key] =
             [present |-> TRUE, value |-> q.new_value,
              ts |-> IF store[q.key].present
                     THEN update_timestamp(store[q.key].ts, c.new_state_id)
                     ELSE micros_timestamp(c.new_state_id)]]
    ELSE store

\* the k/v table after the query of command c
execute_group0_table_query_store(store, q, c) ==
    IF q.type = "update"
    THEN LET cell == store[q.key] IN
         IF cell.present
         THEN IF q.value_condition = "" \/ q.value_condition = cell.value
              THEN [store EXCEPT ![q.key] =
                       [present |-> TRUE, value |-> q.new_value,
                        ts |-> update_timestamp(cell.ts, c.new_state_id)]]
              ELSE store
         ELSE IF q.value_condition = ""
              THEN [store EXCEPT ![q.key] =
                       [present |-> TRUE, value |-> q.new_value,
                        ts |-> micros_timestamp(c.new_state_id)]]
              ELSE store
    ELSE store

\* a select that never finds the partition
execute_group0_table_query_result_absent(store, q, c) ==
    IF q.type = "select" THEN query_result_select("") ELSE query_result_none

\* the query_result the query of command c returns
execute_group0_table_query_result(store, q, c) ==
    IF q.type = "select"
    THEN IF store[q.key].present
         THEN query_result_select(store[q.key].value)
         ELSE query_result_select("")
    ELSE query_result_none

\* a set_query_result that stores nothing
set_query_result_dropped(rs, query_id, qr) == rs

\* raft_group0_client::set_query_result: _results.emplace(query_id, qr)
set_query_result(rs, query_id, qr) ==
    IF \E r \in rs : r.id = query_id THEN rs ELSE rs \cup {[id |-> query_id, qr |-> qr]}

(***************************************************************************)
(* State.                                                                  *)
(***************************************************************************)
VARIABLES
    enabled,            \* node -> raft_group0_client::is_enabled()
    aborted,            \* nodes whose process was aborted by a failed assert
    operation_mutex,    \* node -> available units of _operation_mutex
    read_apply_mutex,   \* node -> available units of _read_apply_mutex
    history,            \* node -> system.group0_history
    schema,             \* node -> schema changes merged (by state ID)
    kv,                 \* node -> system.group0_kv_store
    results,            \* node -> raft_group0_client::_results
    log,                \* the committed Raft log of group 0
    applied,            \* node -> index of the last log entry applied
    applier,            \* node -> position of group0_state_machine::apply
    snap,               \* node -> position of transfer_snapshot
    pc,                 \* proposer -> position in start_operation/add_entry
    guard,              \* proposer -> the group0_guard it holds
    cmd,                \* proposer -> the group0_command it built
    waitIdx,            \* proposer -> log index a Raft wait is for
    attempts,           \* proposer -> resubmissions made by the present add_entry
    reply,              \* proposer -> how Raft's add_entry ended last
    abort_requested,    \* proposers whose abort_source was triggered
    succeeded_before,   \* proposer -> new state IDs of the guarded add_entry calls that
                        \* had returned success when its start_operation was called
    res,                \* proposer -> what the last operation returned
    issued,             \* state IDs generated so far
    pops,               \* proposer -> operations it has begun
    nfaults,            \* failures of the log and snapshot transfers so far
    applyLog,           \* node -> what apply did with each command it processed
    seen_last,          \* node -> the state IDs that have been the last of its history
    crashed,            \* node -> the command its process crashed in, and the tables then
    gen,                \* the last call of generate_group0_state_id: arguments, result
    snapshots,          \* node -> the snapshot IDs Raft got from take_snapshot, and
                        \* those it passed to load_snapshot and drop_snapshot
    compiled            \* the last CQL statement on the k/v table, and what
                        \* is_group0_table_statement and compile made of it

nodeVars == <<enabled, aborted, operation_mutex, read_apply_mutex, history,
              schema, kv, results, applied, applier, snap, applyLog, seen_last, crashed>>
procVars == <<pc, guard, cmd, waitIdx, attempts, reply, res, abort_requested,
              succeeded_before>>
vars == <<nodeVars, procVars, log, issued, pops, nfaults, gen, snapshots, compiled>>

IdleApplier == [pc |-> "idle", idx |-> 0]
IdleSnap == [pc |-> "idle", idx |-> 0, history |-> <<>>, schema |-> {}]

\* what a k/v table holds, without the timestamps of its cells
Contents(store) ==
    [k \in Keys |-> [present |-> store[k].present, value |-> store[k].value]]

NoCrash == [idx |-> 0, history |-> {}, schema |-> {}, kv |-> EmptyStore]
NoSnapshots == [taken |-> {}, loaded |-> {}, dropped |-> {}]
NoGen == [prev_state_id |-> ZeroUUID, now |-> 0, tail |-> 0, id |-> ZeroUUID]

Init ==
    /\ enabled \in [Nodes -> BOOLEAN]
    /\ aborted = {}
    /\ operation_mutex = [n \in Nodes |-> 1]
    /\ read_apply_mutex = [n \in Nodes |-> 1]
    /\ history = [n \in Nodes |-> <<>>]
    /\ schema = [n \in Nodes |-> {}]
    /\ kv = [n \in Nodes |-> EmptyStore]
    /\ results = [n \in Nodes |-> {}]
    /\ log = <<>>
    /\ applied = [n \in Nodes |-> 0]
    /\ applier = [n \in Nodes |-> IdleApplier]
    /\ snap = [n \in Nodes |-> IdleSnap]
    /\ pc = [p \in Procs |-> "idle"]
    /\ guard = [p \in Procs |-> NoGuard]
    /\ cmd = [p \in Procs |-> NoCmd]
    /\ waitIdx = [p \in Procs |-> 0]
    /\ attempts = [p \in Procs |-> 0]
    /\ reply = [p \in Procs |-> "none"]
    /\ abort_requested = {}
    /\ succeeded_before = [p \in Procs |-> {}]
    /\ res = [p \in Procs |-> "none"]
    /\ issued = {}
    /\ pops = [p \in Procs |-> 0]
    /\ nfaults = 0
    /\ applyLog = [n \in Nodes |-> <<>>]
    /\ seen_last = [n \in Nodes |-> {ZeroUUID}]
    /\ crashed = [n \in Nodes |-> NoCrash]
    /\ gen = NoGen
    /\ snapshots = [n \in Nodes |-> NoSnapshots]
    /\ compiled = NoCompiled

Alive(n) == n \notin aborted

RECURSIVE SumOver(_, _)
SumOver(f, S) ==
    IF S = {} THEN 0
    ELSE LET x == CHOOSE y \in S : TRUE IN f[x] + SumOver(f, S \ {x})

\* operations begun so far
NOps == SumOver(pops, Procs)
\* events so far
NEvents == NOps + nfaults

\* a mutex that lets everybody in
CanGetUnits_unlocked(sem) == TRUE

\* seastar::get_units(sem, 1) returns when a unit is available
CanGetUnits(sem) == sem >= 1

\* the new state IDs of the guarded add_entry calls that have returned success
SucceededNow ==
    {cmd[r].new_state_id :
        r \in {q \in Procs : res[q] = "ok" /\ cmd[q].change = "schema_change"}}

(***************************************************************************)
(* raft_group0_client::start_operation                                     *)
(***************************************************************************)
\* is_enabled(): take _operation_mutex and call the read barrier, which has
\* to wait for the entries committed by now
StartOperation(p) ==
    LET n == NodeOf(p) IN
    /\ pc[p] = "idle" /\ Alive(n) /\ enabled[n]
    /\ NEvents < MaxEvents /\ pops[p] < MaxProcOps
    /\ CanGetUnits(operation_mutex[n])
    /\ operation_mutex' = [operation_mutex EXCEPT ![n] = @ - 1]
    /\ pc' = [pc EXCEPT ![p] = "read_barrier"]
    /\ waitIdx' = [waitIdx EXCEPT ![p] = Len(log)]
    /\ cmd' = [cmd EXCEPT ![p] = NoCmd]
    /\ res' = [res EXCEPT ![p] = "none"]
    /\ reply' = [reply EXCEPT ![p] = "none"]
    /\ pops' = [pops EXCEPT ![p] = @ + 1]
    /\ succeeded_before' = [succeeded_before EXCEPT ![p] = SucceededNow]
    /\ UNCHANGED <<abort_requested, enabled, aborted, read_apply_mutex, history, schema, kv, results,
                   applied, applier, snap, applyLog, seen_last, crashed, guard, attempts, log, issued,
                   nfaults, gen, snapshots, compiled>>

\* a failure of the read barrier that leaves _operation_mutex taken
ReadBarrierFails_keeps_mutex(p) ==
    /\ pc[p] = "read_barrier" /\ Alive(NodeOf(p))
    /\ NEvents < MaxEvents
    /\ nfaults' = nfaults + 1
    /\ pc' = [pc EXCEPT ![p] = "idle"]
    /\ waitIdx' = [waitIdx EXCEPT ![p] = 0]
    /\ res' = [res EXCEPT ![p] = "read_barrier_error"]
    /\ UNCHANGED <<succeeded_before, nodeVars, guard, cmd, attempts, reply, abort_requested, log,
                   issued, pops, gen, snapshots, compiled>>

\* the read barrier throws (an error of the log, or an abort): operation_holder
\* is destroyed with the coroutine frame
ReadBarrierFails(p) ==
    LET n == NodeOf(p) IN
    /\ pc[p] = "read_barrier" /\ Alive(n)
    /\ NEvents < MaxEvents
    /\ nfaults' = nfaults + 1
    /\ operation_mutex' = [operation_mutex EXCEPT ![n] = @ + 1]
    /\ pc' = [pc EXCEPT ![p] = "idle"]
    /\ waitIdx' = [waitIdx EXCEPT ![p] = 0]
    /\ res' = [res EXCEPT ![p] = "read_barrier_error"]
    /\ UNCHANGED <<succeeded_before, abort_requested, enabled, aborted, read_apply_mutex, history, schema, kv, results,
                   applied, applier, snap, applyLog, seen_last, crashed, guard, cmd, attempts, reply, log,
                   issued, pops, gen, snapshots, compiled>>

\* a barrier that does not wait
read_barrier_returns_at_once(n, idx) == TRUE

\* group0().read_barrier(as) returns when everything that was committed when
\* it was called (up to index idx) is applied on node n
read_barrier_returns(n, idx) == applied[n] >= idx

\* the read barrier has returned (everything committed when it was called is
\* applied): take _read_apply_mutex, read the last state ID, generate the new
\* one and return the guard
TakeGuard(p) ==
    LET n == NodeOf(p)
        observed_group0_state_id == get_last_group0_state_id(history[n])
    IN
    /\ pc[p] = "read_barrier" /\ Alive(n)
    /\ read_barrier_returns(n, waitIdx[p])
    /\ CanGetUnits(read_apply_mutex[n])
    /\ \E now \in 0..MaxClock :
         LET new_group0_state_id ==
                 generate_group0_state_id(observed_group0_state_id, now, TailOf(p))
         IN /\ new_group0_state_id \notin issued
            /\ issued' = issued \cup {new_group0_state_id}
            /\ UNCHANGED <<gen, snapshots, compiled>>
            /\ guard' = [guard EXCEPT ![p] =
                   [operation_mutex_holder |-> 1, read_apply_mutex_holder |-> 1,
                    observed_group0_state_id |-> observed_group0_state_id,
                    new_group0_state_id |-> new_group0_state_id]]
    /\ read_apply_mutex' = [read_apply_mutex EXCEPT ![n] = @ - 1]
    /\ pc' = [pc EXCEPT ![p] = "guard"]
    /\ waitIdx' = [waitIdx EXCEPT ![p] = 0]
    /\ UNCHANGED <<succeeded_before, abort_requested, enabled, aborted, operation_mutex, history, schema, kv, results,
                   applied, applier, snap, applyLog, seen_last, crashed, cmd, attempts, reply, res, log, pops,
                   nfaults>>

\* a legacy path that takes the two mutexes like the enabled one
StartOperationLegacy_with_units(p) ==
    LET n == NodeOf(p) IN
    /\ pc[p] = "idle" /\ Alive(n) /\ ~enabled[n]
    /\ NEvents < MaxEvents /\ pops[p] < MaxProcOps
    /\ CanGetUnits(operation_mutex[n]) /\ CanGetUnits(read_apply_mutex[n])
    /\ operation_mutex' = [operation_mutex EXCEPT ![n] = @ - 1]
    /\ read_apply_mutex' = [read_apply_mutex EXCEPT ![n] = @ - 1]
    /\ \E now \in 0..MaxClock :
         LET new_group0_state_id == generate_group0_state_id(ZeroUUID, now, TailOf(p))
         IN /\ new_group0_state_id \notin issued
            /\ issued' = issued \cup {new_group0_state_id}
            /\ UNCHANGED <<gen, snapshots, compiled>>
            /\ guard' = [guard EXCEPT ![p] =
                   [operation_mutex_holder |-> 1, read_apply_mutex_holder |-> 1,
                    observed_group0_state_id |-> ZeroUUID,
                    new_group0_state_id |-> new_group0_state_id]]
    /\ pc' = [pc EXCEPT ![p] = "guard"]
    /\ cmd' = [cmd EXCEPT ![p] = NoCmd]
    /\ res' = [res EXCEPT ![p] = "none"]
    /\ reply' = [reply EXCEPT ![p] = "none"]
    /\ pops' = [pops EXCEPT ![p] = @ + 1]
    /\ succeeded_before' = [succeeded_before EXCEPT ![p] = SucceededNow]
    /\ UNCHANGED <<abort_requested, enabled, aborted, history, schema, kv, results,
                   applied, applier, snap, applyLog, seen_last, crashed, waitIdx,
                   attempts, log, nfaults>>

\* !is_enabled(): a guard without units, observed ID zero, new ID generated
StartOperationLegacy(p) ==
    LET n == NodeOf(p) IN
    /\ pc[p] = "idle" /\ Alive(n) /\ ~enabled[n]
    /\ NEvents < MaxEvents /\ pops[p] < MaxProcOps
    /\ \E now \in 0..MaxClock :
         LET new_group0_state_id == generate_group0_state_id(ZeroUUID, now, TailOf(p))
         IN /\ new_group0_state_id \notin issued
            /\ issued' = issued \cup {new_group0_state_id}
            /\ UNCHANGED <<gen, snapshots, compiled>>
            /\ guard' = [guard EXCEPT ![p] =
                   [operation_mutex_holder |-> 0, read_apply_mutex_holder |-> 0,
                    observed_group0_state_id |-> ZeroUUID,
                    new_group0_state_id |-> new_group0_state_id]]
    /\ pc' = [pc EXCEPT ![p] = "guard"]
    /\ cmd' = [cmd EXCEPT ![p] = NoCmd]
    /\ res' = [res EXCEPT ![p] = "none"]
    /\ reply' = [reply EXCEPT ![p] = "none"]
    /\ pops' = [pops EXCEPT ![p] = @ + 1]
    /\ succeeded_before' = [succeeded_before EXCEPT ![p] = SucceededNow]
    /\ UNCHANGED <<abort_requested, nodeVars, waitIdx, attempts, log, nfaults>>

\* ~group0_guard: both holders return the units they hold
DropGuard(p) ==
    LET n == NodeOf(p) IN
    /\ pc[p] = "guard" /\ Alive(n)
    /\ operation_mutex' =
           [operation_mutex EXCEPT ![n] = @ + guard[p].operation_mutex_holder]
    /\ read_apply_mutex' =
           [read_apply_mutex EXCEPT ![n] = @ + guard[p].read_apply_mutex_holder]
    /\ guard' = [guard EXCEPT ![p] = NoGuard]
    /\ pc' = [pc EXCEPT ![p] = "idle"]
    /\ res' = [res EXCEPT ![p] = "guard_dropped"]
    /\ UNCHANGED <<succeeded_before, abort_requested, enabled, aborted, history, schema, kv, results, applied, applier,
                   snap, applyLog, seen_last, crashed, cmd, waitIdx, attempts, reply, log, issued, pops, nfaults, gen, snapshots, compiled>>

(***************************************************************************)
(* raft_group0_client::add_entry and add_entry_unguarded                   *)
(***************************************************************************)
RaftErrors == {"dropped_entry", "commit_status_unknown", "not_a_leader", "raft_error"}

\* a loop that retries dropped_entry only
AddEntryRetries_only_dropped(e) == e = "dropped_entry"

\* a loop that retries not_a_leader as well
AddEntryRetries_not_a_leader(e) ==
    e \in {"dropped_entry", "commit_status_unknown", "not_a_leader"}

\* the catch clauses of the submission loop that set retry = true
AddEntryRetries(e) == e \in {"dropped_entry", "commit_status_unknown"}

\* an add_entry that does not look at the history
AddEntryResult_unchecked(h, new_group0_state_id) == "ok"

\* the check of the history after the command was applied locally
AddEntryResult(h, new_group0_state_id) ==
    IF group0_history_contains(h, new_group0_state_id)
    THEN "ok" ELSE "group0_concurrent_modification"

\* group0_guard::impl::release_read_apply_mutex: the assert holds
ReleaseReadApplyMutexOk(g) == g.read_apply_mutex_holder = 1

\* a guard that keeps its unit
release_read_apply_mutex_kept(g) == g

\* group0_guard::impl::release_read_apply_mutex: the guard after
\* _read_apply_mutex_holder.return_units(1)
release_read_apply_mutex(g) == [g EXCEPT !.read_apply_mutex_holder = @ - 1]

\* prepare_command(schema_change, guard, description) and add_entry up to its
\* first co_await: serialize the command and release the read_apply mutex; a
\* guard that holds no unit of it fails the assert
AddEntry(p) ==
    LET n == NodeOf(p) IN
    /\ pc[p] = "guard" /\ Alive(n)
    /\ cmd' = [cmd EXCEPT ![p] = prepare_command_schema(guard[p], n)]
    /\ IF ReleaseReadApplyMutexOk(guard[p])
       THEN /\ guard' = [guard EXCEPT ![p] = release_read_apply_mutex(@)]
            /\ read_apply_mutex' = [read_apply_mutex EXCEPT ![n] =
                   @ + guard[p].read_apply_mutex_holder
                     - guard'[p].read_apply_mutex_holder]
            /\ pc' = [pc EXCEPT ![p] = "submit"]
            /\ UNCHANGED aborted
       ELSE /\ aborted' = aborted \cup {n}
            /\ pc' = [pc EXCEPT ![p] = "assert_failed"]
            /\ UNCHANGED <<read_apply_mutex, guard>>
    /\ UNCHANGED <<succeeded_before, abort_requested, enabled, operation_mutex, history, schema, kv, results, applied,
                   applier, snap, applyLog, seen_last, crashed, waitIdx, attempts, reply, res, log, issued, pops,
                   nfaults, gen, snapshots, compiled>>

\* prepare_command(table_query) and add_entry_unguarded up to its first
\* co_await
AddEntryUnguarded(p, q) ==
    LET n == NodeOf(p) IN
    /\ pc[p] = "idle" /\ Alive(n) /\ enabled[n]
    /\ NEvents < MaxEvents /\ pops[p] < MaxProcOps
    /\ \E now \in 0..MaxClock :
         LET new_group0_state_id == generate_group0_state_id(ZeroUUID, now, TailOf(p))
         IN /\ new_group0_state_id \notin issued
            /\ issued' = issued \cup {new_group0_state_id}
            /\ UNCHANGED <<gen, snapshots, compiled>>
            /\ cmd' = [cmd EXCEPT ![p] = prepare_command_query(q, new_group0_state_id, n)]
    /\ pc' = [pc EXCEPT ![p] = "submit"]
    /\ res' = [res EXCEPT ![p] = "none"]
    /\ reply' = [reply EXCEPT ![p] = "none"]
    /\ pops' = [pops EXCEPT ![p] = @ + 1]
    /\ UNCHANGED <<succeeded_before, abort_requested, nodeVars, guard, waitIdx, attempts, log, nfaults>>

\* Raft commits the submitted entry; add_entry(cmd, wait_type::applied) now
\* waits for the local state machine to apply it
RaftCommits(p) ==
    /\ pc[p] = "submit" /\ Alive(NodeOf(p))
    /\ Len(log) < MaxLog
    /\ log' = Append(log, cmd[p])
    /\ waitIdx' = [waitIdx EXCEPT ![p] = Len(log) + 1]
    /\ pc' = [pc EXCEPT ![p] = "wait_applied"]
    /\ UNCHANGED <<succeeded_before, abort_requested, nodeVars, guard, cmd, attempts, reply, res, issued, pops, nfaults, gen, snapshots, compiled>>

\* an exception that leaves the guard alive
Throw_keeps_guard(p, e) ==
    /\ pc' = [pc EXCEPT ![p] = "idle"]
    /\ waitIdx' = [waitIdx EXCEPT ![p] = 0]
    /\ attempts' = [attempts EXCEPT ![p] = 0]
    /\ reply' = [reply EXCEPT ![p] = e]
    /\ res' = [res EXCEPT ![p] = e]
    /\ UNCHANGED <<operation_mutex, read_apply_mutex, guard>>

\* the exception propagates out of add_entry: the guard is destroyed
Throw(p, e) ==
    LET n == NodeOf(p) IN
    /\ operation_mutex' =
           [operation_mutex EXCEPT ![n] = @ + guard[p].operation_mutex_holder]
    /\ read_apply_mutex' =
           [read_apply_mutex EXCEPT ![n] = @ + guard[p].read_apply_mutex_holder]
    /\ guard' = [guard EXCEPT ![p] = NoGuard]
    /\ pc' = [pc EXCEPT ![p] = "idle"]
    /\ waitIdx' = [waitIdx EXCEPT ![p] = 0]
    /\ attempts' = [attempts EXCEPT ![p] = 0]
    /\ reply' = [reply EXCEPT ![p] = e]
    /\ res' = [res EXCEPT ![p] = e]

\* Raft's add_entry throws e; with commit_status_unknown the entry may have
\* been committed all the same
RaftFails(p, e, committed) ==
    /\ pc[p] = "submit" /\ Alive(NodeOf(p))
    /\ committed => (e = "commit_status_unknown" /\ Len(log) < MaxLog)
    /\ NEvents < MaxEvents
    /\ AddEntryRetries(e) => attempts[p] < MaxAttempts
    /\ nfaults' = nfaults + 1
    /\ log' = IF committed THEN Append(log, cmd[p]) ELSE log
    /\ IF AddEntryRetries(e)
       THEN /\ attempts' = [attempts EXCEPT ![p] = @ + 1]
            /\ reply' = [reply EXCEPT ![p] = e]
            /\ UNCHANGED <<operation_mutex, read_apply_mutex, guard, pc, waitIdx, res>>
       ELSE Throw(p, e)
    /\ UNCHANGED <<succeeded_before, abort_requested, enabled, aborted, history, schema, kv, results, applied, applier,
                   snap, applyLog, seen_last, crashed, cmd, issued, pops, gen, snapshots, compiled>>

\* the wait for the local apply is aborted through the abort_source
RaftWaitAborted(p) ==
    /\ pc[p] = "wait_applied" /\ Alive(NodeOf(p))
    /\ NEvents < MaxEvents
    /\ nfaults' = nfaults + 1
    /\ Throw(p, "raft_error")
    /\ UNCHANGED <<succeeded_before, abort_requested, enabled, aborted, history, schema, kv, results, applied, applier,
                   snap, applyLog, seen_last, crashed, cmd, log, issued, pops, gen, snapshots, compiled>>

\* Raft's add_entry returns: the entry was applied locally.  The loop ends
\* and the guard is destroyed; add_entry then looks for the new state ID in
\* the history, add_entry_unguarded returns.
RaftApplied(p) ==
    LET n == NodeOf(p) IN
    /\ pc[p] = "wait_applied" /\ Alive(n)
    /\ applied[n] >= waitIdx[p]
    /\ operation_mutex' =
           [operation_mutex EXCEPT ![n] = @ + guard[p].operation_mutex_holder]
    /\ guard' = [guard EXCEPT ![p] = NoGuard]
    /\ res' = [res EXCEPT ![p] =
           IF guard[p] # NoGuard
           THEN AddEntryResult(history[n], guard[p].new_group0_state_id)
           ELSE "ok"]
    /\ pc' = [pc EXCEPT ![p] = "idle"]
    /\ waitIdx' = [waitIdx EXCEPT ![p] = 0]
    /\ attempts' = [attempts EXCEPT ![p] = 0]
    /\ reply' = [reply EXCEPT ![p] = "ok"]
    /\ UNCHANGED <<succeeded_before, abort_requested, enabled, aborted, read_apply_mutex, history, schema, kv, results,
                   applied, applier, snap, applyLog, seen_last, crashed, cmd, log, issued, pops, nfaults, gen, snapshots, compiled>>

(***************************************************************************)
(* group0_state_machine::apply, one command at a time                      *)
(***************************************************************************)
\* an apply without the prev_state_id check
ApplySkips_never(c, last_group0_state_id) == FALSE

\* a check that skips only the commands that ran ahead of the history
ApplySkips_if_newer(c, last_group0_state_id) ==
    c.prev_state_id # Nullopt /\ c.prev_state_id > last_group0_state_id

\* the prev_state_id check: the command used obsolete state
ApplySkips(c, last_group0_state_id) ==
    c.prev_state_id # Nullopt /\ c.prev_state_id # last_group0_state_id

\* a failed dispatch whose mutex holder is never destroyed
ApplyDispatchFails_keeps_mutex(n) ==
    LET idx == applied[n] + 1
        c == log[idx]
    IN
    /\ Alive(n) /\ enabled[n]
    /\ applier[n].pc = "idle" /\ applied[n] < Len(log)
    /\ CanGetUnits(read_apply_mutex[n])
    /\ ~ApplySkips(c, get_last_group0_state_id(history[n]))
    /\ NEvents < MaxEvents
    /\ nfaults' = nfaults + 1
    /\ read_apply_mutex' = [read_apply_mutex EXCEPT ![n] = @ - 1]
    /\ applier' = [applier EXCEPT ![n] = [pc |-> "failed", idx |-> idx]]
    /\ applyLog' = [applyLog EXCEPT ![n] =
           Append(@, [idx |-> idx, id |-> c.new_state_id, did |-> "failed"])]
    /\ UNCHANGED <<enabled, aborted, operation_mutex, history, schema, kv,
                   results, applied, snap, seen_last, crashed, procVars, log, issued,
                   pops, gen, snapshots, compiled>>

\* take _read_apply_mutex for the next command, pass the prev_state_id
\* check, and std::visit throws (merge_schema_from or
\* execute_group0_table_query failed): the exception leaves apply(), which
\* destroys the mutex holder; nothing is stored and the history is not written
ApplyDispatchFails(n) ==
    LET idx == applied[n] + 1
        c == log[idx]
    IN
    /\ Alive(n) /\ enabled[n]
    /\ applier[n].pc = "idle" /\ applied[n] < Len(log)
    /\ CanGetUnits(read_apply_mutex[n])
    /\ ~ApplySkips(c, get_last_group0_state_id(history[n]))
    /\ NEvents < MaxEvents
    /\ nfaults' = nfaults + 1
    /\ applier' = [applier EXCEPT ![n] = [pc |-> "failed", idx |-> idx]]
    /\ applyLog' = [applyLog EXCEPT ![n] =
           Append(@, [idx |-> idx, id |-> c.new_state_id, did |-> "failed"])]
    /\ UNCHANGED <<enabled, aborted, operation_mutex, read_apply_mutex, history,
                   schema, kv, results, applied, snap, seen_last, crashed, procVars,
                   log, issued, pops, gen, snapshots, compiled>>

Max2(a, b) == IF a >= b THEN a ELSE b

\* take _read_apply_mutex for the next command and check its prev_state_id:
\* `continue` releases the mutex again; otherwise std::visit on cmd.change
\* merges the schema change, or executes the query and stores its result
ApplyCommand(n) ==
    LET idx == applied[n] + 1
        c == log[idx]
    IN
    /\ Alive(n) /\ enabled[n]
    /\ applier[n].pc = "idle" /\ applied[n] < Len(log)
    /\ CanGetUnits(read_apply_mutex[n])
    /\ IF ApplySkips(c, get_last_group0_state_id(history[n]))
       THEN /\ applied' = [applied EXCEPT ![n] = idx]
            /\ applyLog' = [applyLog EXCEPT ![n] =
                   Append(@, [idx |-> idx, id |-> c.new_state_id, did |-> "skipped"])]
            /\ UNCHANGED <<read_apply_mutex, applier, schema, kv, results, seen_last, crashed>>
       ELSE /\ read_apply_mutex' = [read_apply_mutex EXCEPT ![n] = @ - 1]
            /\ applier' = [applier EXCEPT ![n] = [pc |-> "history_append", idx |-> idx]]
            /\ IF c.change = "schema_change"
               THEN /\ schema' = [schema EXCEPT ![n] = @ \cup {c.new_state_id}]
                    /\ UNCHANGED <<kv, results>>
               ELSE /\ kv' = [kv EXCEPT ![n] =
                           execute_group0_table_query_store(@, c.query, c)]
                    /\ results' = [results EXCEPT ![n] =
                           set_query_result(@, c.new_state_id,
                               execute_group0_table_query_result(kv[n], c.query, c))]
                    /\ UNCHANGED schema
            /\ UNCHANGED <<applied, applyLog, seen_last, crashed>>
    /\ UNCHANGED <<enabled, aborted, operation_mutex, history, snap, procVars, log,
                   issued, pops, nfaults, gen, snapshots, compiled>>

\* mutate_locally(cmd.history_append); the mutex holder goes out of scope
ApplyHistoryAppend(n) ==
    LET c == log[applier[n].idx] IN
    /\ Alive(n) /\ applier[n].pc = "history_append"
    /\ history' = [history EXCEPT ![n] = mutate_history(@, c.history_append)]
    /\ read_apply_mutex' = [read_apply_mutex EXCEPT ![n] = @ + 1]
    /\ applied' = [applied EXCEPT ![n] = Max2(@, applier[n].idx)]
    /\ applier' = [applier EXCEPT ![n] = IdleApplier]
    /\ applyLog' = [applyLog EXCEPT ![n] =
           Append(@, [idx |-> applier[n].idx, id |-> c.new_state_id, did |-> "applied"])]
    /\ seen_last' = [seen_last EXCEPT ![n] =
           @ \cup {get_last_group0_state_id(history'[n])}]
    /\ UNCHANGED <<enabled, aborted, operation_mutex, schema, kv, results, snap,
                   crashed, procVars, log, issued, pops, nfaults, gen, snapshots, compiled>>

(***************************************************************************)
(* group0_state_machine::transfer_snapshot                                 *)
(***************************************************************************)
\* send_migration_request: pull the schema and history mutations of `from`
\* as they are now; the snapshot descriptor is for index idx
TransferSnapshotPull(n, from, idx) ==
    /\ Alive(n) /\ enabled[n] /\ enabled[from] /\ from # n
    /\ snap[n].pc \in {"idle", "internal_error"} /\ NEvents < MaxEvents
    /\ applied[n] < idx /\ idx <= applied[from]
    /\ snap' = [snap EXCEPT ![n] = [pc |-> "pulled", idx |-> idx,
                                    history |-> history[from], schema |-> schema[from]]]
    /\ nfaults' = nfaults + 1
    /\ UNCHANGED <<enabled, aborted, operation_mutex, read_apply_mutex, history,
                   schema, kv, results, applied, applier, applyLog, seen_last, crashed, procVars, log,
                   issued, pops, gen, snapshots, compiled>>

\* the replies to MIGRATION_REQUEST that transfer_snapshot cannot use
BadReplies == {"no_canonical_mutations", "no_history_mutation"}

\* send_migration_request returns a reply without canonical mutations, or
\* with none for the history table: on_internal_error, before get_units
TransferSnapshotFails(n, from, idx, bad_reply) ==
    /\ Alive(n) /\ enabled[n] /\ enabled[from] /\ from # n
    /\ snap[n].pc \in {"idle", "internal_error"} /\ NEvents < MaxEvents
    /\ applied[n] < idx /\ idx <= applied[from]
    /\ snap' = [snap EXCEPT ![n] = [pc |-> "internal_error", idx |-> idx,
                                    history |-> <<>>, schema |-> {}]]
    /\ nfaults' = nfaults + 1
    /\ UNCHANGED <<enabled, aborted, operation_mutex, read_apply_mutex, history,
                   schema, kv, results, applied, applier, applyLog, seen_last, crashed, procVars, log,
                   issued, pops, gen, snapshots, compiled>>

\* a merge that takes no unit of _read_apply_mutex
TransferSnapshotMerge_without_mutex(n) ==
    /\ Alive(n) /\ snap[n].pc = "pulled"
    /\ schema' = [schema EXCEPT ![n] = @ \cup snap[n].schema]
    /\ snap' = [snap EXCEPT ![n].pc = "merged"]
    /\ UNCHANGED <<enabled, aborted, operation_mutex, read_apply_mutex, history, kv,
                   results, applied, applier, applyLog, seen_last, crashed, procVars,
                   log, issued, pops, nfaults, gen, snapshots, compiled>>

\* take _read_apply_mutex, then merge_schema_from
TransferSnapshotMerge(n) ==
    /\ Alive(n) /\ snap[n].pc = "pulled"
    /\ CanGetUnits(read_apply_mutex[n])
    /\ read_apply_mutex' = [read_apply_mutex EXCEPT ![n] = @ - 1]
    /\ schema' = [schema EXCEPT ![n] = @ \cup snap[n].schema]
    /\ snap' = [snap EXCEPT ![n].pc = "merged"]
    /\ UNCHANGED <<enabled, aborted, operation_mutex, history, kv, results, applied,
                   applier, applyLog, seen_last, crashed, procVars, log, issued, pops, nfaults, gen, snapshots, compiled>>

\* mutate_locally(history_mut); the mutex holder goes out of scope and Raft
\* takes the snapshot's index as applied
TransferSnapshotHistory(n) ==
    /\ Alive(n) /\ snap[n].pc = "merged"
    /\ history' = [history EXCEPT ![n] = merge_history(@, snap[n].history)]
    /\ read_apply_mutex' = [read_apply_mutex EXCEPT ![n] = @ + 1]
    /\ applied' = [applied EXCEPT ![n] = Max2(@, snap[n].idx)]
    /\ snap' = [snap EXCEPT ![n] = IdleSnap]
    /\ seen_last' = [seen_last EXCEPT ![n] =
           @ \cup {get_last_group0_state_id(history'[n])}]
    /\ UNCHANGED <<enabled, aborted, operation_mutex, schema, kv, results, applier,
                   applyLog, crashed, procVars, log, issued, pops, nfaults, gen, snapshots, compiled>>

(***************************************************************************)
(* The waits of start_operation and the abort_source, step by step.        *)
(***************************************************************************)
\* start_operation is called with is_enabled(): it waits in
\* get_units(_operation_mutex, 1)
CallStartOperation(p) ==
    LET n == NodeOf(p) IN
    /\ pc[p] = "idle" /\ Alive(n) /\ enabled[n]
    /\ NEvents < MaxEvents /\ pops[p] < MaxProcOps
    /\ pc' = [pc EXCEPT ![p] = "operation_mutex"]
    /\ cmd' = [cmd EXCEPT ![p] = NoCmd]
    /\ res' = [res EXCEPT ![p] = "none"]
    /\ reply' = [reply EXCEPT ![p] = "none"]
    /\ abort_requested' = abort_requested \ {p}
    /\ pops' = [pops EXCEPT ![p] = @ + 1]
    /\ succeeded_before' = [succeeded_before EXCEPT ![p] = SucceededNow]
    /\ UNCHANGED <<nodeVars, guard, waitIdx, attempts, log, issued, nfaults, gen, snapshots, compiled>>

\* get_units(_operation_mutex, 1) returns; the read barrier is called
GetOperationMutex(p) ==
    LET n == NodeOf(p) IN
    /\ pc[p] = "operation_mutex" /\ Alive(n)
    /\ CanGetUnits(operation_mutex[n])
    /\ operation_mutex' = [operation_mutex EXCEPT ![n] = @ - 1]
    /\ pc' = [pc EXCEPT ![p] = "read_barrier"]
    /\ waitIdx' = [waitIdx EXCEPT ![p] = Len(log)]
    /\ UNCHANGED <<succeeded_before, enabled, aborted, read_apply_mutex, history, schema, kv, results,
                   applied, applier, snap, applyLog, seen_last, crashed, guard, cmd, attempts, reply, res,
                   abort_requested, log, issued, pops, nfaults, gen, snapshots, compiled>>

\* the caller triggers the abort_source it passed to the call
RequestAbort(p) ==
    /\ pc[p] \in {"operation_mutex", "read_barrier", "guard", "submit", "wait_applied"}
    /\ Alive(NodeOf(p))
    /\ p \notin abort_requested
    /\ abort_requested' = abort_requested \cup {p}
    /\ UNCHANGED <<succeeded_before, nodeVars, pc, guard, cmd, waitIdx, attempts, reply, res, log,
                   issued, pops, nfaults, gen, snapshots, compiled>>

\* read_barrier(as) throws because of the abort: operation_holder is
\* destroyed with the coroutine frame
ReadBarrierAborted(p) ==
    LET n == NodeOf(p) IN
    /\ pc[p] = "read_barrier" /\ Alive(n)
    /\ p \in abort_requested
    /\ operation_mutex' = [operation_mutex EXCEPT ![n] = @ + 1]
    /\ pc' = [pc EXCEPT ![p] = "idle"]
    /\ waitIdx' = [waitIdx EXCEPT ![p] = 0]
    /\ res' = [res EXCEPT ![p] = "abort_requested"]
    /\ UNCHANGED <<succeeded_before, enabled, aborted, read_apply_mutex, history, schema, kv, results,
                   applied, applier, snap, applyLog, seen_last, crashed, guard, cmd, attempts, reply,
                   abort_requested, log, issued, pops, nfaults, gen, snapshots, compiled>>

\* Raft's add_entry(cmd, wait_type::applied, as) throws because of the
\* abort: no catch clause of the loop takes it
AddEntryAborted(p) ==
    /\ pc[p] \in {"submit", "wait_applied"} /\ Alive(NodeOf(p))
    /\ p \in abort_requested
    /\ Throw(p, "abort_requested")
    /\ UNCHANGED <<succeeded_before, enabled, aborted, history, schema, kv, results, applied, applier,
                   snap, applyLog, seen_last, crashed, cmd, abort_requested, log, issued, pops, nfaults, gen, snapshots, compiled>>

(***************************************************************************)
(* The results of table queries: get_query_result, remove_query_result.    *)
(***************************************************************************)
\* a get_query_result that erases the entry it returns
get_query_result_erasing(rs, query_id, moved) == {r \in rs : r.id # query_id}

\* raft_group0_client::get_query_result: std::move(_results[query_id]) moves
\* the result out and leaves the entry in the map, holding `moved`
get_query_result(rs, query_id, moved) ==
    {IF r.id = query_id THEN [id |-> r.id, qr |-> moved] ELSE r : r \in rs}

\* what a query_result may hold after it was moved from: the same
\* alternative, with the bytes of a select either left or taken
MovedFrom(qr) ==
    IF qr.type = "select" /\ qr.value # ""
    THEN {qr, [qr EXCEPT !.value = "moved_from"]}
    ELSE {qr}

\* a remove_query_result that erases nothing
remove_query_result_kept(rs, query_id) == rs

\* raft_group0_client::remove_query_result
remove_query_result(rs, query_id) == {r \in rs : r.id # query_id}

\* the caller of add_entry_unguarded takes the result of its query; the
\* assert fails when _results has no entry for it
GetQueryResult(p) ==
    LET n == NodeOf(p)
        query_id == cmd[p].new_state_id
    IN
    /\ pc[p] = "idle" /\ Alive(n)
    /\ res[p] = "ok" /\ cmd[p].change = "table_query"
    /\ IF \E r \in results[n] : r.id = query_id
       THEN /\ \E r \in results[n] : \E moved \in MovedFrom(r.qr) :
                 /\ r.id = query_id
                 /\ results' = [results EXCEPT ![n] =
                        get_query_result(@, query_id, moved)]
            /\ res' = [res EXCEPT ![p] = "result_taken"]
            /\ UNCHANGED <<aborted, pc>>
       ELSE /\ aborted' = aborted \cup {n}
            /\ pc' = [pc EXCEPT ![p] = "assert_failed"]
            /\ UNCHANGED <<results, res>>
    /\ UNCHANGED <<enabled, operation_mutex, read_apply_mutex, history, schema, kv,
                   applied, applier, snap, applyLog, seen_last, crashed, guard, cmd,
                   waitIdx, attempts, reply, abort_requested, succeeded_before, log,
                   issued, pops, nfaults, gen, snapshots, compiled>>

\* the caller removes the entry of its query
RemoveQueryResult(p) ==
    LET n == NodeOf(p) IN
    /\ pc[p] = "idle" /\ Alive(n)
    /\ res[p] = "result_taken"
    /\ results' = [results EXCEPT ![n] = remove_query_result(@, cmd[p].new_state_id)]
    /\ res' = [res EXCEPT ![p] = "result_removed"]
    /\ UNCHANGED <<enabled, aborted, operation_mutex, read_apply_mutex, history, schema,
                   kv, applied, applier, snap, applyLog, seen_last, crashed, pc, guard,
                   cmd, waitIdx, attempts, reply, abort_requested, succeeded_before,
                   log, issued, pops, nfaults, gen, snapshots, compiled>>

(***************************************************************************)
(* A crash of the process inside apply(), and the restart.                 *)
(***************************************************************************)
\* The process of node n crashes in apply() after the payload of a command
\* was written and before its history mutation.  The tables stay; the
\* mutexes, _results and the callers' coroutines are gone.  After the restart
\* Raft replays the log from the index `from` of its last snapshot
\* descriptor, which is not above the interrupted command.
Crash(n, from) ==
    /\ Alive(n) /\ enabled[n]
    /\ applier[n].pc = "history_append" /\ snap[n].pc = "idle"
    /\ crashed[n] = NoCrash
    /\ from <= applied[n]
    /\ NEvents < MaxEvents
    /\ nfaults' = nfaults + 1
    /\ crashed' = [crashed EXCEPT ![n] =
           [idx |-> applier[n].idx, history |-> RangeOf(history[n]),
            schema |-> schema[n], kv |-> kv[n]]]
    /\ applier' = [applier EXCEPT ![n] = IdleApplier]
    /\ applied' = [applied EXCEPT ![n] = from]
    /\ operation_mutex' = [operation_mutex EXCEPT ![n] = 1]
    /\ read_apply_mutex' = [read_apply_mutex EXCEPT ![n] = 1]
    /\ results' = [results EXCEPT ![n] = {}]
    /\ pc' = [p \in Procs |-> IF NodeOf(p) = n THEN "idle" ELSE pc[p]]
    /\ guard' = [p \in Procs |-> IF NodeOf(p) = n THEN NoGuard ELSE guard[p]]
    /\ waitIdx' = [p \in Procs |-> IF NodeOf(p) = n THEN 0 ELSE waitIdx[p]]
    /\ attempts' = [p \in Procs |-> IF NodeOf(p) = n THEN 0 ELSE attempts[p]]
    /\ res' = [p \in Procs |->
           IF NodeOf(p) = n /\ pc[p] # "idle" THEN "crashed" ELSE res[p]]
    /\ reply' = [p \in Procs |->
           IF NodeOf(p) = n /\ pc[p] # "idle" THEN "crashed" ELSE reply[p]]
    /\ UNCHANGED <<enabled, aborted, history, schema, kv, snap, applyLog, seen_last,
                   cmd, abort_requested, succeeded_before, log, issued, pops, gen, snapshots, compiled>>

(***************************************************************************)
(* Specifications.                                                         *)
(***************************************************************************)
\* a call of generate_group0_state_id whose predecessor is the zero ID or an
\* ID generated before, at any reading of the clock
GenerateGroup0StateId(prev_state_id, now, tail) ==
    /\ Cardinality(issued) < MaxGenCalls
    /\ LET id == generate_group0_state_id(prev_state_id, now, tail)
       IN /\ gen' = [prev_state_id |-> prev_state_id, now |-> now,
                     tail |-> tail, id |-> id]
          /\ issued' = issued \cup {id}
    /\ UNCHANGED <<nodeVars, procVars, log, pops, nfaults, snapshots, compiled>>

NextGen ==
    \E prev_state_id \in issued \cup {ZeroUUID}, now \in 0..MaxGenClock,
       tail \in 1..Cardinality(Procs) :
        GenerateGroup0StateId(prev_state_id, now, tail)

\* generate_group0_state_id alone, called again and again
SpecGen == Init /\ [][NextGen]_vars

(***************************************************************************)
(* group0_state_machine::take_snapshot, load_snapshot, drop_snapshot       *)
(***************************************************************************)
\* raft::snapshot_id::create_random_id() yields one of these
SnapshotIds == {"s1", "s2"}

SnapshotsTaken == UNION {snapshots[n].taken : n \in Nodes}

\* take_snapshot: returns a random snapshot ID to Raft
TakeSnapshot(n, id) ==
    /\ Alive(n) /\ enabled[n]
    /\ Cardinality(SnapshotsTaken) < MaxSnapshots
    /\ id \notin SnapshotsTaken
    /\ snapshots' = [snapshots EXCEPT ![n].taken = @ \cup {id}]
    /\ UNCHANGED <<nodeVars, procVars, log, issued, pops, nfaults, gen, compiled>>

\* a load_snapshot that empties the tables the snapshot does not hold
LoadSnapshot_resets_tables(n, id) ==
    /\ Alive(n) /\ enabled[n]
    /\ id \in snapshots[n].taken \ (snapshots[n].dropped \cup snapshots[n].loaded)
    /\ snapshots' = [snapshots EXCEPT ![n].loaded = @ \cup {id}]
    /\ history' = [history EXCEPT ![n] = <<>>]
    /\ schema' = [schema EXCEPT ![n] = {}]
    /\ kv' = [kv EXCEPT ![n] = EmptyStore]
    /\ UNCHANGED <<enabled, aborted, operation_mutex, read_apply_mutex, results,
                   applied, applier, snap, applyLog, seen_last, crashed, procVars,
                   log, issued, pops, nfaults, gen, compiled>>

\* load_snapshot(id): returns a ready future
LoadSnapshot(n, id) ==
    /\ Alive(n) /\ enabled[n]
    /\ id \in snapshots[n].taken \ (snapshots[n].dropped \cup snapshots[n].loaded)
    /\ snapshots' = [snapshots EXCEPT ![n].loaded = @ \cup {id}]
    /\ UNCHANGED <<nodeVars, procVars, log, issued, pops, nfaults, gen, compiled>>

\* drop_snapshot(id): (void) id
DropSnapshot(n, id) ==
    /\ Alive(n) /\ enabled[n]
    /\ id \in snapshots[n].taken \ snapshots[n].dropped
    /\ snapshots' = [snapshots EXCEPT ![n].dropped = @ \cup {id}]
    /\ UNCHANGED <<nodeVars, procVars, log, issued, pops, nfaults, gen, compiled>>

(***************************************************************************)
(* A CQL statement arrives: is_group0_table_statement tells whether it is  *)
(* handed to raft::group0_tables::execute, which compiles it.              *)
(***************************************************************************)
Execute(statement) ==
    /\ compiled = NoCompiled
    /\ compiled' =
           [statement |-> statement,
            is_group0_table_statement |-> is_group0_table_statement(statement),
            compile |-> IF is_group0_table_statement(statement)
                        THEN compile(statement) ELSE NotCompiled]
    /\ UNCHANGED <<nodeVars, procVars, log, issued, pops, nfaults, gen, snapshots>>

NextCompile == \E statement \in Statements : Execute(statement)

\* a statement on the k/v table
SpecCompile == Init /\ [][NextCompile]_vars

\* guarded operations, apply, transfer_snapshot and the failures of the log
NextGuarded ==
    \/ \E p \in Procs : StartOperation(p)
    \/ \E p \in Procs : ReadBarrierFails(p)
    \/ \E p \in Procs : TakeGuard(p)
    \/ \E p \in Procs : StartOperationLegacy(p)
    \/ \E p \in Procs : DropGuard(p)
    \/ \E p \in Procs : AddEntry(p)
    \/ \E p \in Procs : RaftCommits(p)
    \/ \E p \in Procs, e \in RaftErrors, committed \in BOOLEAN : RaftFails(p, e, committed)
    \/ \E p \in Procs : RaftWaitAborted(p)
    \/ \E p \in Procs : RaftApplied(p)
    \/ \E n \in Nodes : ApplyCommand(n)
    \/ \E n \in Nodes : ApplyHistoryAppend(n)
    \/ \E n \in Nodes, from \in Nodes, idx \in 1..MaxLog : TransferSnapshotPull(n, from, idx)
    \/ \E n \in Nodes : TransferSnapshotMerge(n)
    \/ \E n \in Nodes : TransferSnapshotHistory(n)

\* the same with the unguarded table queries
Next ==
    \/ NextGuarded
    \/ \E p \in Procs, q \in CoreQueries : AddEntryUnguarded(p, q)

Spec == Init /\ [][Next]_vars

\* only guarded operations are issued
SpecGuarded == Init /\ [][NextGuarded]_vars

\* the same with replies to the snapshot pull that cannot be used
NextSnap ==
    \/ Next
    \/ \E n \in Nodes, from \in Nodes, idx \in 1..MaxLog, bad_reply \in BadReplies :
           TransferSnapshotFails(n, from, idx, bad_reply)

SpecSnap == Init /\ [][NextSnap]_vars

\* guarded and unguarded operations, apply, and the snapshots Raft takes,
\* loads and drops at the state machine
NextTake ==
    \/ \E p \in Procs : NOps < MaxKVOps /\ StartOperation(p)
    \/ \E p \in Procs : TakeGuard(p)
    \/ \E p \in Procs : AddEntry(p)
    \/ \E p \in Procs, q \in CoreQueries : NOps < MaxKVOps /\ AddEntryUnguarded(p, q)
    \/ \E p \in Procs : RaftCommits(p)
    \/ \E p \in Procs : RaftApplied(p)
    \/ \E n \in Nodes : ApplyCommand(n)
    \/ \E n \in Nodes : ApplyHistoryAppend(n)
    \/ \E n \in Nodes, id \in SnapshotIds : TakeSnapshot(n, id)
    \/ \E n \in Nodes, id \in SnapshotIds : LoadSnapshot(n, id)
    \/ \E n \in Nodes, id \in SnapshotIds : DropSnapshot(n, id)

SpecTake == Init /\ [][NextTake]_vars

\* the queries of the k/v table: a select, an unconditional update and
\* conditional updates whose condition holds, or does not, as the table goes
KVQueries ==
    {select_query("k"), update_query("k", "v0", ""),
     update_query("k", "v1", "v0"), update_query("k", "v1", "v2")}

\* table queries, their results, and apply
NextKV ==
    \/ \E p \in Procs, q \in KVQueries : NOps < MaxKVOps /\ AddEntryUnguarded(p, q)
    \/ \E p \in Procs : RaftCommits(p)
    \/ \E p \in Procs : RaftApplied(p)
    \/ \E p \in Procs : GetQueryResult(p)
    \/ \E p \in Procs : RemoveQueryResult(p)
    \/ \E n \in Nodes : ApplyCommand(n)
    \/ \E n \in Nodes : ApplyHistoryAppend(n)

SpecKV == Init /\ [][NextKV]_vars

\* the updates issued where the process may crash
CrashQueries == {update_query("k", "v0", ""), update_query("k", "v1", "v0")}

\* guarded and unguarded operations, apply, and a crash inside apply
NextCrash ==
    \/ \E p \in Procs : StartOperation(p)
    \/ \E p \in Procs : TakeGuard(p)
    \/ \E p \in Procs : AddEntry(p)
    \/ \E p \in Procs, q \in CrashQueries : AddEntryUnguarded(p, q)
    \/ \E p \in Procs : RaftCommits(p)
    \/ \E p \in Procs : RaftApplied(p)
    \/ \E n \in Nodes : ApplyCommand(n)
    \/ \E n \in Nodes : ApplyHistoryAppend(n)
    \/ \E n \in Nodes, from \in 0..MaxLog : Crash(n, from)

SpecCrash == Init /\ [][NextCrash]_vars

\* guarded and unguarded operations and an apply whose dispatch may fail
NextFail ==
    \/ \E p \in Procs : StartOperation(p)
    \/ \E p \in Procs : TakeGuard(p)
    \/ \E p \in Procs : DropGuard(p)
    \/ \E p \in Procs : AddEntry(p)
    \/ \E p \in Procs, q \in CoreQueries : AddEntryUnguarded(p, q)
    \/ \E p \in Procs : RaftCommits(p)
    \/ \E p \in Procs : RaftApplied(p)
    \/ \E n \in Nodes : ApplyCommand(n)
    \/ \E n \in Nodes : ApplyHistoryAppend(n)
    \/ \E n \in Nodes : ApplyDispatchFails(n)

SpecFail == Init /\ [][NextFail]_vars

\* table queries whose submission fails and is repeated, and apply
NextRetry ==
    \/ \E p \in Procs, q \in CrashQueries : AddEntryUnguarded(p, q)
    \/ \E p \in Procs : RaftCommits(p)
    \/ \E p \in Procs, e \in RaftErrors, committed \in BOOLEAN : RaftFails(p, e, committed)
    \/ \E p \in Procs : RaftApplied(p)
    \/ \E n \in Nodes : ApplyCommand(n)
    \/ \E n \in Nodes : ApplyHistoryAppend(n)

SpecRetry == Init /\ [][NextRetry]_vars

\* guarded operations with the wait for _operation_mutex as a step of its
\* own, the failures of the log, and apply
NextLive ==
    \/ \E p \in Procs : CallStartOperation(p)
    \/ \E p \in Procs : GetOperationMutex(p)
    \/ \E p \in Procs : ReadBarrierFails(p)
    \/ \E p \in Procs : TakeGuard(p)
    \/ \E p \in Procs : StartOperationLegacy(p)
    \/ \E p \in Procs : DropGuard(p)
    \/ \E p \in Procs : AddEntry(p)
    \/ \E p \in Procs : RaftCommits(p)
    \/ \E p \in Procs, e \in RaftErrors, committed \in BOOLEAN : RaftFails(p, e, committed)
    \/ \E p \in Procs : RaftWaitAborted(p)
    \/ \E p \in Procs : RaftApplied(p)
    \/ \E n \in Nodes : ApplyCommand(n)
    \/ \E n \in Nodes : ApplyHistoryAppend(n)

\* the scheduler runs what is runnable: apply, a proposer whose lock is
\* free, whose barrier is answered or whose entry is applied
SchedulingFairness ==
    /\ \A n \in Nodes : WF_vars(ApplyCommand(n)) /\ WF_vars(ApplyHistoryAppend(n))
    /\ \A p \in Procs : /\ WF_vars(GetOperationMutex(p))
                         /\ WF_vars(TakeGuard(p))
                         /\ WF_vars(RaftApplied(p))

\* a caller that got a guard submits a command with it or drops it
CallerFairness == \A p \in Procs : WF_vars(AddEntry(p) \/ DropGuard(p))

\* the log commits what is submitted to it
LogFairness == \A p \in Procs : WF_vars(RaftCommits(p))

SpecLive ==
    Init /\ [][NextLive]_vars /\ SchedulingFairness /\ CallerFairness /\ LogFairness

\* guarded operations whose callers may trigger their abort_source, and
\* apply; the log may commit or not
NextAbort ==
    \/ \E p \in Procs : CallStartOperation(p)
    \/ \E p \in Procs : GetOperationMutex(p)
    \/ \E p \in Procs : TakeGuard(p)
    \/ \E p \in Procs : StartOperationLegacy(p)
    \/ \E p \in Procs : DropGuard(p)
    \/ \E p \in Procs : AddEntry(p)
    \/ \E p \in Procs : RaftCommits(p)
    \/ \E p \in Procs : RaftApplied(p)
    \/ \E p \in Procs : RequestAbort(p)
    \/ \E p \in Procs : ReadBarrierAborted(p)
    \/ \E p \in Procs : AddEntryAborted(p)
    \/ \E n \in Nodes : ApplyCommand(n)
    \/ \E n \in Nodes : ApplyHistoryAppend(n)

\* a wait that takes the abort_source ends when it is triggered
AbortFairness ==
    \A p \in Procs : WF_vars(ReadBarrierAborted(p)) /\ WF_vars(AddEntryAborted(p))

\* no assumption on the log
SpecAbort ==
    Init /\ [][NextAbort]_vars /\ SchedulingFairness /\ CallerFairness /\ AbortFairness

(***************************************************************************)
(* Vocabulary of the properties.                                           *)
(***************************************************************************)
\* a command built by prepare_command(schema_change, guard, description)
IsGuardedCommand(c) == c # NoCmd /\ c.change = "schema_change"

\* the guarded commands of the log, by new state ID
GuardedInLog == {i \in 1..Len(log) : IsGuardedCommand(log[i])}

\* index of the first copy in the log of the command with this new state ID
FirstIdx(id) ==
    CHOOSE i \in 1..Len(log) :
        /\ log[i].new_state_id = id
        /\ \A j \in 1..Len(log) : log[j].new_state_id = id => i <= j

\* apply on node n has been through the log entry i and holds nothing
Processed(n, i) == applied[n] >= i /\ applier[n].pc = "idle"

\* add_entry of p left its submission loop because the entry was applied
Returned(p) == res[p] \in {"ok", "group0_concurrent_modification"}

(***************************************************************************)
(* Properties.                                                             *)
(***************************************************************************)
\* C1: with only guarded operations, apply and snapshot transfers, the state
\* IDs recorded in the history of every node are strictly increasing in the
\* order in which they were appended.
C1_HistoryStrictlyIncreasing ==
    \A n \in Nodes :
        \A i, j \in 1..Len(history[n]) : i < j => history[n][i] < history[n][j]

\* two guarded commands were appended one after the other on a node
C1_Witness ==
    \E n \in Nodes :
        /\ Len(history[n]) >= 2
        /\ Len(applyLog[n]) >= 2
        /\ \A i \in 1..2 : applyLog[n][i].did = "applied"

\* C2: when apply is about to append a command's state ID to the history
\* (the command's prev_state_id is present and its payload was merged), the
\* last state ID of the node's history is still the command's prev_state_id:
\* no other apply and no transfer_snapshot has touched the history since the
\* check.
C2_LastIsPrevAtAppend ==
    \A n \in Nodes :
        (applier[n].pc = "history_append"
           /\ log[applier[n].idx].prev_state_id # Nullopt)
        => get_last_group0_state_id(history[n]) = log[applier[n].idx].prev_state_id

\* apply is between its check and its append while a pulled snapshot that
\* holds newer history waits for the mutex
C2_Witness ==
    \E n \in Nodes :
        /\ applier[n].pc = "history_append"
        /\ log[applier[n].idx].prev_state_id # Nullopt
        /\ snap[n].pc = "pulled"
        /\ Len(snap[n].history) > Len(history[n])

\* C3 as stated: of two different guarded commands in the log that observed
\* the same state ID, every node that has applied both has exactly one of
\* the two new state IDs in its history; the proposer of the one that is
\* absent gets group0_concurrent_modification and the proposer of the one
\* that is present gets success.
C3_ExactlyOneAppends ==
    \A i, j \in GuardedInLog :
        (/\ log[i].new_state_id # log[j].new_state_id
         /\ log[i].prev_state_id = log[j].prev_state_id)
        => \A n \in Nodes :
             (Processed(n, i) /\ Processed(n, j)) =>
                 /\ Cardinality({log[i].new_state_id, log[j].new_state_id}
                                  \cap RangeOf(history[n])) = 1
                 /\ \A p \in ProcsOn(n) :
                      (Returned(p) /\ cmd[p] \in {log[i], log[j]}) =>
                          (res[p] = "ok"
                             <=> group0_history_contains(history[n], cmd[p].new_state_id))

\* C3 amended: of two different guarded commands in the log that observed
\* the same state ID, no node ever has the new state ID of the one that is
\* later in the log in its history, so at most one of the two appends (the
\* earlier one, and only where the history still ended with the observed ID);
\* a proposer whose add_entry outlives the submission gets
\* group0_concurrent_modification for the later command, and success for the
\* earlier one exactly when its node's history holds the new state ID.
C3_AtMostTheFirstAppends ==
    \A i, j \in GuardedInLog :
        (/\ log[i].new_state_id # log[j].new_state_id
         /\ log[i].prev_state_id = log[j].prev_state_id
         /\ FirstIdx(log[i].new_state_id) < FirstIdx(log[j].new_state_id))
        => /\ \A n \in Nodes :
                ~group0_history_contains(history[n], log[j].new_state_id)
           /\ \A p \in Procs :
                (Returned(p) /\ cmd[p] = log[j])
                    => res[p] = "group0_concurrent_modification"
           /\ \A p \in Procs :
                (Returned(p) /\ cmd[p] = log[i])
                    => (res[p] = "ok" <=>
                          group0_history_contains(history[NodeOf(p)],
                                                  log[i].new_state_id))

\* two guarded commands with the same observed state ID were both applied on
\* the node of their proposers: the first got success, the second
\* group0_concurrent_modification
C3_Witness ==
    \E i, j \in GuardedInLog :
        /\ i < j
        /\ log[i].new_state_id # log[j].new_state_id
        /\ log[i].prev_state_id = log[j].prev_state_id
        /\ \E p, r \in Procs :
             /\ cmd[p] = log[i] /\ res[p] = "ok"
             /\ cmd[r] = log[j] /\ res[r] = "group0_concurrent_modification"

\* the next command of node n has a prev_state_id that is not the last ID
C4_Mismatch(n) ==
    /\ applier[n].pc = "idle" /\ applied[n] < Len(log)
    /\ log[applied[n] + 1].prev_state_id # Nullopt
    /\ log[applied[n] + 1].prev_state_id # get_last_group0_state_id(history[n])

\* the step is apply's, on node n
C4_ApplyStep(n) ==
    \/ applier'[n] # applier[n]
    \/ applied'[n] # applied[n] /\ snap'[n] = snap[n]

\* C4: when apply processes a command whose prev_state_id is present and is
\* not the last ID of the history, the step changes neither the history, nor
\* the schema, nor the k/v table, nor the results of the node; apply keeps no
\* mutex and goes on to the next command.
C4_SkipChangesNothing ==
    [][\A n \in Nodes :
          (C4_Mismatch(n) /\ C4_ApplyStep(n)) =>
              /\ history'[n] = history[n]
              /\ schema'[n] = schema[n]
              /\ kv'[n] = kv[n]
              /\ results'[n] = results[n]
              /\ read_apply_mutex'[n] = read_apply_mutex[n]
              /\ applier'[n] = IdleApplier
              /\ applied'[n] = applied[n] + 1]_vars

\* a node skipped a command and processed the one after it
C4_Witness ==
    \E n \in Nodes : \E a \in 1..Len(applyLog[n]) :
        /\ applyLog[n][a].did = "skipped"
        /\ log[applyLog[n][a].idx].prev_state_id # Nullopt
        /\ a < Len(applyLog[n])

\* C5: a guarded add_entry that left its loop because the entry was applied
\* locally returned success if and only if the history of the proposer's
\* node contains the new state ID; otherwise it raised
\* group0_concurrent_modification.
C5_SuccessIffInHistory ==
    \A p \in Procs :
        (Returned(p) /\ IsGuardedCommand(cmd[p])) =>
            (res[p] = "ok" <=>
                group0_history_contains(history[NodeOf(p)], cmd[p].new_state_id))

\* a guarded add_entry raised group0_concurrent_modification
C5_Witness ==
    \E p \in Procs :
        /\ IsGuardedCommand(cmd[p])
        /\ res[p] = "group0_concurrent_modification"
        /\ applied[NodeOf(p)] >= FirstIdx(cmd[p].new_state_id)

\* C6: of the copies of one guarded command that a node's apply has
\* processed, only the first can have been dispatched and appended: every
\* later copy was skipped.
C6_CopiesApplyAtMostOnce ==
    \A n \in Nodes : \A a, b \in 1..Len(applyLog[n]) :
        (/\ a < b
         /\ applyLog[n][a].id = applyLog[n][b].id
         /\ IsGuardedCommand(log[applyLog[n][b].idx]))
        => applyLog[n][b].did = "skipped"

\* a node applied the first copy of a guarded command and skipped the second
C6_Witness ==
    \E n \in Nodes : \E a, b \in 1..Len(applyLog[n]) :
        /\ a < b
        /\ log[applyLog[n][a].idx] = log[applyLog[n][b].idx]
        /\ IsGuardedCommand(log[applyLog[n][b].idx])
        /\ applyLog[n][a].did = "applied"
        /\ applyLog[n][b].did = "skipped"

\* the errors the submission loop retries
Retried == {"dropped_entry", "commit_status_unknown"}

\* C7: add_entry and add_entry_unguarded never return dropped_entry or
\* commit_status_unknown; after either of them the call is still in its loop
\* with the same command, and the entry it then waits for is that command.
C7_RetriedNeverSurfaced ==
    \A p \in Procs :
        /\ res[p] \notin Retried
        /\ reply[p] \in Retried =>
              /\ pc[p] \in {"submit", "wait_applied"}
              /\ attempts[p] >= 1
              /\ cmd[p] # NoCmd
        /\ pc[p] = "wait_applied" => log[waitIdx[p]] = cmd[p]

\* a submission ended with commit_status_unknown and the resubmitted command
\* was committed
C7_Witness ==
    \E p \in Procs :
        /\ reply[p] = "commit_status_unknown"
        /\ pc[p] = "wait_applied"
        /\ waitIdx[p] = Len(log)

\* the units of a node's mutexes are with the semaphore or with a holder
LocksAccounted(n) ==
    /\ operation_mutex[n] + Cardinality({p \in ProcsOn(n) : pc[p] = "read_barrier"})
         + Cardinality({p \in ProcsOn(n) : guard[p].operation_mutex_holder = 1}) = 1
    /\ read_apply_mutex[n]
         + Cardinality({p \in ProcsOn(n) : guard[p].read_apply_mutex_holder = 1})
         + (IF applier[n].pc = "history_append" THEN 1 ELSE 0)
         + (IF snap[n].pc = "merged" THEN 1 ELSE 0) = 1

\* C8: when Raft's add_entry ends with not_a_leader or another error that is
\* not retried, the call returns that error at once, and the guard is gone
\* with the units it held: the mutexes of the node are held only by the
\* guards, the applier and the snapshot transfer that exist.
C8_OtherErrorsPropagate ==
    \A p \in Procs :
        (reply[p] \in RaftErrors \ Retried) =>
            /\ res[p] = reply[p]
            /\ pc[p] = "idle"
            /\ attempts[p] = 0
            /\ guard[p] = NoGuard
            /\ LocksAccounted(NodeOf(p))

\* a guarded add_entry failed with not_a_leader and the next start_operation
\* on the node got both mutexes
C8_Witness ==
    \E p, r \in Procs :
        /\ p # r /\ NodeOf(p) = NodeOf(r)
        /\ IsGuardedCommand(cmd[p]) /\ res[p] = "not_a_leader"
        /\ guard[r].operation_mutex_holder = 1
        /\ guard[r].read_apply_mutex_holder = 1

\* the guards that exist on node n
GuardsOn(n) == {p \in ProcsOn(n) : guard[p] # NoGuard}

\* C9 as stated: at most one guard exists on a node.
C9_AtMostOneGuard ==
    \A n \in Nodes : Cardinality(GuardsOn(n)) <= 1

\* C9 amended: on a node where group 0 is enabled, at most one guard exists.
C9_AtMostOneGuardWhereEnabled ==
    \A n \in Nodes : enabled[n] => Cardinality(GuardsOn(n)) <= 1

\* a second guard exists on a node after its first was dropped
C9_Witness ==
    \E p, r \in Procs :
        /\ p # r /\ NodeOf(p) = NodeOf(r) /\ enabled[NodeOf(p)]
        /\ res[p] = "guard_dropped" /\ guard[p] = NoGuard
        /\ guard[r] # NoGuard

\* C10: every guard has a new state ID above the one it observed, and every
\* schema-change command, held by a proposer or in the log, has a
\* new_state_id above its prev_state_id; while the guard exists they are the
\* guard's two IDs.
C10_NewAboveObserved ==
    /\ \A p \in Procs :
         guard[p] # NoGuard =>
             guard[p].new_group0_state_id > guard[p].observed_group0_state_id
    /\ \A p \in Procs :
         IsGuardedCommand(cmd[p]) =>
             /\ cmd[p].new_state_id > cmd[p].prev_state_id
             /\ guard[p] # NoGuard =>
                   /\ cmd[p].prev_state_id = guard[p].observed_group0_state_id
                   /\ cmd[p].new_state_id = guard[p].new_group0_state_id
    /\ \A i \in GuardedInLog : log[i].new_state_id > log[i].prev_state_id

\* a command was built from a guard whose new ID had to be moved past the
\* clock, above the timestamp of a non-zero observed ID
C10_Witness ==
    \E p \in Procs :
        /\ IsGuardedCommand(cmd[p]) /\ guard[p] # NoGuard
        /\ cmd[p].prev_state_id # ZeroUUID
        /\ micros_timestamp(cmd[p].new_state_id) > MaxClock

\* the holders of _read_apply_mutex on node n
ApplyLockGuards(n) == {p \in ProcsOn(n) : guard[p].read_apply_mutex_holder = 1}
ApplyLockHolders(n) ==
    Cardinality(ApplyLockGuards(n))
      + (IF applier[n].pc = "history_append" THEN 1 ELSE 0)
      + (IF snap[n].pc = "merged" THEN 1 ELSE 0)

\* C11: on every node at most one of a guard, the application of a command
\* and the installation of a snapshot holds _read_apply_mutex, and a step
\* taken while a guard holds it changes neither the history, nor the schema,
\* nor the k/v table of the node.
C11_ApplyLockExcludes ==
    /\ [](\A n \in Nodes : ApplyLockHolders(n) <= 1)
    /\ [][\A n \in Nodes :
            ApplyLockGuards(n) # {} =>
                /\ history'[n] = history[n]
                /\ schema'[n] = schema[n]
                /\ kv'[n] = kv[n]]_vars

\* a guard holds the mutex while a committed command and a pulled snapshot
\* wait for it
C11_Witness ==
    \E n \in Nodes :
        /\ ApplyLockGuards(n) # {}
        /\ applied[n] < Len(log)
        /\ snap[n].pc = "pulled"

\* C12: a proposer that has not yet got _operation_mutex or is in the read
\* barrier holds no unit of _read_apply_mutex; a proposer gets
\* _read_apply_mutex only from the read barrier, once the barrier is
\* answered, while it holds _operation_mutex; and no step of apply or of
\* transfer_snapshot changes _operation_mutex.
C12_LockOrder ==
    /\ [](\A p \in Procs :
            pc[p] \in {"idle", "read_barrier"} =>
                guard[p].read_apply_mutex_holder = 0)
    /\ [][\A p \in Procs :
            (guard[p].read_apply_mutex_holder = 0
               /\ guard'[p].read_apply_mutex_holder = 1) =>
                /\ pc[p] = "read_barrier"
                /\ applied[NodeOf(p)] >= waitIdx[p]
                /\ guard'[p].operation_mutex_holder = 1
                /\ operation_mutex'[NodeOf(p)] = 0
                /\ operation_mutex[NodeOf(p)] = 0]_vars
    /\ [][\A n \in Nodes :
            (applier'[n] # applier[n] \/ snap'[n] # snap[n]
               \/ applyLog'[n] # applyLog[n]) =>
                operation_mutex'[n] = operation_mutex[n]]_vars

\* a proposer holds _operation_mutex in the read barrier, which waits for a
\* command that apply is in the middle of, under _read_apply_mutex
C12_Witness ==
    \E p \in Procs :
        /\ pc[p] = "read_barrier"
        /\ applied[NodeOf(p)] < waitIdx[p]
        /\ applier[NodeOf(p)].pc = "history_append"

\* C13: where group 0 is enabled, with a fair scheduler, callers that use
\* their guards and a log that commits, every start_operation and add_entry
\* that was called returns, and every committed command is applied on every
\* node.
C13_NoDeadlock ==
    /\ \A p \in Procs :
         (enabled[NodeOf(p)] /\ pc[p] \notin {"idle", "guard"}) ~> pc[p] \in {"idle", "guard"}
    /\ \A n \in Nodes : \A i \in 1..MaxLog :
         (enabled[n] /\ Len(log) >= i) ~> applied[n] >= i

\* a proposer waits for the local apply of its entry, holding
\* _operation_mutex, while another proposer of the node waits for that mutex
C13_Witness ==
    \E p, r \in Procs :
        /\ p # r /\ NodeOf(r) = NodeOf(p)
        /\ pc[p] = "wait_applied" /\ applied[NodeOf(p)] < waitIdx[p]
        /\ pc[r] = "operation_mutex"

\* C14: a start_operation whose read barrier failed has returned that error
\* and no guard; it holds no unit of either mutex, so that every unit of the
\* node's mutexes is free or with a holder that exists.
C14_BarrierFailureReleases ==
    \A p \in Procs :
        res[p] = "read_barrier_error" =>
            /\ pc[p] = "idle"
            /\ guard[p] = NoGuard
            /\ cmd[p] = NoCmd
            /\ LocksAccounted(NodeOf(p))

\* after the read barrier of one start_operation failed, the next
\* start_operation on the node got its guard
C14_Witness ==
    \E p, r \in Procs :
        /\ p # r /\ NodeOf(p) = NodeOf(r)
        /\ res[p] = "read_barrier_error"
        /\ guard[r].operation_mutex_holder = 1

\* C15: where group 0 is enabled, a proposer holds the unit of
\* _operation_mutex in every state from the read barrier to the end of
\* add_entry's submission loop; a proposer that is in no call holds no
\* guard, and the units of both mutexes are accounted for; while a guarded
\* command is being submitted no other proposer of the node has a guard or
\* is in the read barrier.
C15_OperationLockHeld ==
    \A p \in Procs :
        /\ (enabled[NodeOf(p)] /\ pc[p] \in {"read_barrier", "guard", "submit", "wait_applied"}
              /\ (pc[p] \in {"submit", "wait_applied"} => IsGuardedCommand(cmd[p])))
           => /\ operation_mutex[NodeOf(p)] = 0
              /\ pc[p] # "read_barrier" => guard[p].operation_mutex_holder = 1
              /\ \A r \in ProcsOn(NodeOf(p)) \ {p} :
                    guard[r] = NoGuard /\ pc[r] # "read_barrier"
        /\ pc[p] = "idle" => (guard[p] = NoGuard /\ LocksAccounted(NodeOf(p)))

\* a guarded command is resubmitted after a failure of the log, its
\* proposer still holding _operation_mutex, after another proposer of the
\* node dropped its guard
C15_Witness ==
    \E p, r \in Procs :
        /\ p # r /\ NodeOf(p) = NodeOf(r)
        /\ pc[p] = "submit" /\ attempts[p] >= 1 /\ IsGuardedCommand(cmd[p])
        /\ res[r] = "guard_dropped"

\* C16 as stated: once the abort is requested, a proposer that is in the
\* wait for _operation_mutex, in the read barrier or in the submission to
\* the log eventually is out of the call and holds no guard.
C16_AbortEndsEveryWait ==
    \A p \in Procs :
        (p \in abort_requested
           /\ pc[p] \in {"operation_mutex", "read_barrier", "submit", "wait_applied"})
        ~> (pc[p] = "idle" /\ guard[p] = NoGuard)

\* what the code does: the abort ends the read barrier and the submission
C16_AbortEndsBarrierAndSubmission ==
    \A p \in Procs :
        (p \in abort_requested /\ pc[p] \in {"read_barrier", "submit", "wait_applied"})
        ~> (pc[p] = "idle" /\ guard[p] = NoGuard)

\* the abort was requested for a proposer that waits for _operation_mutex
\* while the proposer that holds it waits for the log
C16_Witness ==
    \E p, r \in Procs :
        /\ p # r /\ NodeOf(p) = NodeOf(r)
        /\ p \in abort_requested /\ pc[p] = "operation_mutex"
        /\ r \notin abort_requested /\ pc[r] = "submit"

\* what C17 says of the guard of proposer p
C17_GuardSeesEarlierSuccess(p) ==
    guard[p] # NoGuard =>
        /\ \A id \in succeeded_before[p] :
              /\ guard[p].observed_group0_state_id >= id
              /\ group0_history_contains(history[NodeOf(p)], id)
        /\ \/ guard[p].observed_group0_state_id = ZeroUUID
           \/ group0_history_contains(history[NodeOf(p)],
                                      guard[p].observed_group0_state_id)

\* C17: where group 0 is enabled, every guard observes a state ID that is at
\* least the new state ID of every guarded add_entry, on any node, that had
\* returned success when the guard's start_operation was called; the history
\* of the guard's node contains those IDs, and the observed ID is zero or in
\* that history (so that after one successful operation and nothing else the
\* next guard observes exactly its new state ID).
C17_ObservesEarlierSuccessWhereEnabled ==
    \A p \in Procs : enabled[NodeOf(p)] => C17_GuardSeesEarlierSuccess(p)

\* a guard on one node whose start_operation was called after an add_entry
\* on the other node had returned success
C17_Witness ==
    \E p, r \in Procs :
        /\ NodeOf(p) # NodeOf(r) /\ enabled[NodeOf(p)]
        /\ guard[p] # NoGuard
        /\ res[r] = "ok" /\ cmd[r].new_state_id \in succeeded_before[p]
        /\ guard[p].observed_group0_state_id = cmd[r].new_state_id

\* the new state ID of p's command has been the last of the history of p's node
C18_WasLast(p) == cmd[p].new_state_id \in seen_last[NodeOf(p)]

\* p's node appended the new state ID of p's command in its own apply()
C18_AppliedLocally(p) ==
    \E i \in 1..Len(applyLog[NodeOf(p)]) :
        /\ applyLog[NodeOf(p)][i].id = cmd[p].new_state_id
        /\ applyLog[NodeOf(p)][i].did = "applied"

\* C18 as stated: when a guarded add_entry has returned success, the new state
\* ID of its command has been, in some state up to the return, the last ID of
\* the history of the proposing node.
C18_SuccessWasLast ==
    \A p \in Procs :
        (res[p] = "ok" /\ IsGuardedCommand(cmd[p])) => C18_WasLast(p)

\* C18, amended: when a guarded add_entry has returned success and the
\* proposing node appended the new state ID in its own apply(), the ID has
\* been the last ID of that node's history in some state up to the return.
C18_SuccessWasLastIfAppliedLocally ==
    \A p \in Procs :
        (res[p] = "ok" /\ IsGuardedCommand(cmd[p]) /\ C18_AppliedLocally(p))
            => C18_WasLast(p)

\* a guarded add_entry has returned success for a command its node applied
\* itself, and a later command has superseded its state ID since
C18_Witness ==
    \E p \in Procs :
        /\ res[p] = "ok" /\ IsGuardedCommand(cmd[p]) /\ C18_AppliedLocally(p)
        /\ C18_WasLast(p)
        /\ get_last_group0_state_id(history[NodeOf(p)]) > cmd[p].new_state_id

\* the command apply() is processing, or will process next, on node n
C19_Command(n) ==
    IF applier[n].pc = "idle" THEN log[applied[n] + 1] ELSE log[applier[n].idx]

\* C19: a step of apply() on a node either leaves the node's history as it is
\* or appends exactly one entry to it, whose ID is the new_state_id of the
\* command being processed and was not in the history; a skipped command
\* leaves it as it is, and a command that is not skipped has its new_state_id
\* in the history once its processing ends.  Both kinds of command, from
\* prepare_command(schema_change, guard, description) and from
\* prepare_command(table_query), carry their new_state_id as the ID of their
\* history mutation.
C19_OneAppendPerCommand ==
    /\ [](\A i \in 1..Len(log) : log[i].history_append = log[i].new_state_id)
    /\ [][\A n \in Nodes :
            C4_ApplyStep(n) =>
                /\ \/ history'[n] = history[n]
                   \/ /\ history'[n] = Append(history[n], C19_Command(n).new_state_id)
                      /\ ~group0_history_contains(history[n], C19_Command(n).new_state_id)
                /\ C4_Mismatch(n) => history'[n] = history[n]
                /\ (applier[n].pc = "history_append" /\ applier'[n].pc = "idle") =>
                       group0_history_contains(history'[n], C19_Command(n).new_state_id)]_vars

\* a node has appended the state IDs of a schema change and of a table query,
\* each in its own apply(), and has skipped a third command
C19_Witness ==
    \E n \in Nodes : \E a, b, c \in 1..Len(applyLog[n]) :
        /\ applyLog[n][a].did = "applied"
        /\ log[applyLog[n][a].idx].change = "schema_change"
        /\ applyLog[n][b].did = "applied"
        /\ log[applyLog[n][b].idx].change = "table_query"
        /\ applyLog[n][c].did = "skipped"
        /\ Len(history[n]) = 2

\* apply() on node n takes a command it does not skip
C20_AppliesNext(n) ==
    /\ applier[n].pc = "idle" /\ applier'[n].pc = "history_append"

\* the write timestamp of the mutations of command c on a node whose k/v table
\* is store: the one of the cell an update_query writes, else the microsecond
\* component of new_state_id
C20_WriteTimestamp(c, store) ==
    IF c.change = "table_query" /\ c.query.type = "update"
          /\ execute_group0_table_query_store(store, c.query, c) # store
    THEN execute_group0_table_query_store(store, c.query, c)[c.query.key].ts
    ELSE micros_timestamp(c.new_state_id)

C21_Quiet(n) == applier[n].pc = "idle" /\ snap[n].pc = "idle"

\* node n processed every log entry up to applied[n] in its own apply()
C21_AppliedItself(n) ==
    /\ Len(applyLog[n]) = applied[n]
    /\ \A i \in 1..Len(applyLog[n]) : applyLog[n][i].idx = i

\* nodes n and m hold the same history and the same k/v table
C21_SameContents(n, m) ==
    /\ RangeOf(history[n]) = RangeOf(history[m])
    /\ kv[n] = kv[m]

\* C21: every node processes the log entries one at a time in the order of
\* the log, and two nodes that have applied the log up to the same index,
\* through apply() alone or with a transfer_snapshot on the way, hold the same
\* history and the same k/v table.
C21_SameLogSameState ==
    /\ \A n \in Nodes : \A i, j \in 1..Len(applyLog[n]) :
           i < j => applyLog[n][i].idx < applyLog[n][j].idx
    /\ \A n, m \in Nodes :
           (C21_Quiet(n) /\ C21_Quiet(m) /\ applied[n] = applied[m])
               => C21_SameContents(n, m)

\* the part of C21 that does not involve transfer_snapshot
C21_SameLogSameStateByApply ==
    /\ \A n \in Nodes : \A i, j \in 1..Len(applyLog[n]) :
           i < j => applyLog[n][i].idx < applyLog[n][j].idx
    /\ \A n, m \in Nodes :
           (/\ C21_Quiet(n) /\ C21_Quiet(m) /\ applied[n] = applied[m]
            /\ C21_AppliedItself(n) /\ C21_AppliedItself(m))
               => C21_SameContents(n, m)

\* two nodes have applied the log up to the same index, one in its own
\* apply() with a k/v update among the commands, the other through a snapshot
C21_Witness ==
    \E n, m \in Nodes :
        /\ C21_Quiet(n) /\ C21_Quiet(m) /\ applied[n] = applied[m]
        /\ C21_AppliedItself(n) /\ Len(applyLog[m]) < applied[m]
        /\ \E i \in 1..Len(applyLog[n]) :
             applyLog[n][i].did = "applied" /\ log[i].change = "table_query"

\* apply() on node n takes the command its process crashed in
C22_ReplayBegins(n) ==
    /\ crashed[n] # NoCrash
    /\ applier[n].pc = "idle" /\ applied[n] + 1 = crashed[n].idx
    /\ applier'[n] # applier[n] \/ applied'[n] # applied[n]

\* apply() on node n ends the command its process crashed in
C22_ReplayEnds(n) ==
    /\ crashed[n] # NoCrash
    /\ applier[n] = [pc |-> "history_append", idx |-> crashed[n].idx]
    /\ applier'[n] = IdleApplier

\* the tables of node n are as they were when its process crashed
C22_AsAtCrash(n) ==
    /\ RangeOf(history[n]) = crashed[n].history
    /\ schema[n] = crashed[n].schema
    /\ Contents(kv[n]) = Contents(crashed[n].kv)

C23_UpdateReplayed(n) ==
    /\ C22_ReplayBegins(n)
    /\ kv[n] = crashed[n].kv
    /\ log[crashed[n].idx].change = "table_query"
    /\ log[crashed[n].idx].query.type = "update"

C24_Executes(n) ==
    /\ applier[n].pc = "idle" /\ applier'[n].pc = "history_append"
    /\ log[applier'[n].idx].change = "table_query"

\* the query that apply() on node n executes in this step
C24_Query(n) == log[applier'[n].idx].query

\* the condition of update_query q holds on the k/v table store
C24_ConditionHolds(store, q) ==
    store[q.key].present /\ store[q.key].value = q.value_condition

\* C24: when apply() executes an update with a value_condition V, the result
\* stored for the command is a conditional_update result whose is_applied
\* tells whether the current value equalled V and whose previous_value is the
\* value seen.
C24_ConditionalUpdateResult ==
    [][\A n \in Nodes :
          (/\ C24_Executes(n)
           /\ C24_Query(n).type = "update" /\ C24_Query(n).value_condition # ""
           /\ ~\E r \in results[n] : r.id = log[applier'[n].idx].new_state_id) =>
              \E r \in results'[n] :
                  /\ r.id = log[applier'[n].idx].new_state_id
                  /\ r.qr = query_result_conditional_update(
                                C24_ConditionHolds(kv[n], C24_Query(n)),
                                kv[n][C24_Query(n).key].value)]_vars

\* a conditional update whose condition held was executed on a node, and the
\* result stored for it is query_result_none
C24_Witness ==
    \E n \in Nodes : \E i \in 1..Len(log) : \E r \in results[n] :
        /\ applied[n] >= i
        /\ log[i].change = "table_query" /\ log[i].query.value_condition = "v0"
        /\ kv[n]["k"].present /\ kv[n]["k"].value = "v1"
        /\ r.id = log[i].new_state_id /\ r.qr = query_result_none

\* C25: when apply() executes an update with a value_condition V, the value
\* of the key becomes new_value if the key has a cell whose value equals V,
\* and the k/v table is left as it is if the key has no cell or another
\* value; an update without a condition always sets the value to new_value.
\* No other key changes.
C25_UpdateSemantics ==
    [][\A n \in Nodes :
          (C24_Executes(n) /\ C24_Query(n).type = "update") =>
              LET q == C24_Query(n) IN
              /\ \A k \in Keys \ {q.key} : kv'[n][k] = kv[n][k]
              /\ IF q.value_condition = "" \/ C24_ConditionHolds(kv[n], q)
                 THEN kv'[n][q.key].present /\ kv'[n][q.key].value = q.new_value
                 ELSE kv'[n] = kv[n]]_vars

\* a node has executed an unconditional update and then a conditional update
\* whose condition did not hold, and the value is that of the first
C25_Witness ==
    \E n \in Nodes :
        /\ applied[n] = 2 /\ applier[n].pc = "idle"
        /\ log[1].query = update_query("k", "v0", "")
        /\ log[2].query = update_query("k", "v1", "v2")
        /\ kv[n]["k"].present /\ kv[n]["k"].value = "v0"

\* C26: an update that writes the value cell writes it at
\* max(timestamp of the existing cell + 1, microseconds of new_state_id) when
\* the key has a cell and at the microseconds of new_state_id when it has
\* none: the timestamp written is at least the microseconds of new_state_id
\* and greater than the timestamp of the cell it replaces.
C26_WriteTimestamp ==
    [][\A n \in Nodes :
          (/\ C24_Executes(n) /\ C24_Query(n).type = "update"
           /\ C24_Query(n).value_condition = "" \/ C24_ConditionHolds(kv[n], C24_Query(n))) =>
              LET k == C24_Query(n).key
                  micros == micros_timestamp(log[applier'[n].idx].new_state_id)
              IN
              /\ kv'[n][k].ts =
                     IF kv[n][k].present THEN Max2(kv[n][k].ts + 1, micros) ELSE micros
              /\ kv'[n][k].ts >= micros
              /\ kv[n][k].present => kv'[n][k].ts > kv[n][k].ts]_vars

\* a node holds a cell written by the second of two updates, at a timestamp
\* above the microseconds of that update's state ID
C26_Witness ==
    \E n \in Nodes :
        /\ applied[n] = 2 /\ applier[n].pc = "idle"
        /\ log[2].query.type = "update" /\ log[1].query.type = "update"
        /\ kv[n]["k"].present /\ kv[n]["k"].value = log[2].query.new_value
        /\ kv[n]["k"].ts > micros_timestamp(log[2].new_state_id)

\* the value of key k after the updates among the first i entries of the log,
\* "" when none of them has written it
RECURSIVE C27_ValueAfter(_, _)
C27_ValueAfter(i, k) ==
    IF i = 0 THEN ""
    ELSE LET q == log[i].query
             before == C27_ValueAfter(i - 1, k)
         IN IF /\ log[i].change = "table_query" /\ q.type = "update" /\ q.key = k
               /\ q.value_condition = "" \/ (before # "" /\ before = q.value_condition)
            THEN q.new_value
            ELSE before

\* C27: when apply() executes select{key}, no table changes and the result
\* stored for the command is a select result holding the value written by
\* the last update of the key applied before it in the log, or no value when
\* no update has written the key.
C27_SelectResult ==
    [][\A n \in Nodes :
          (C24_Executes(n) /\ C24_Query(n).type = "select") =>
              /\ kv'[n] = kv[n] /\ history'[n] = history[n] /\ schema'[n] = schema[n]
              /\ (~\E r \in results[n] : r.id = log[applier'[n].idx].new_state_id) =>
                     \E r \in results'[n] :
                         /\ r.id = log[applier'[n].idx].new_state_id
                         /\ r.qr = query_result_select(
                                C27_ValueAfter(applied[n], C24_Query(n).key))]_vars

\* update{k, v0} and then select{k} were applied to an empty table and the
\* result stored for the select holds v0
C27_Witness ==
    \E n \in Nodes : \E r \in results[n] :
        /\ applied[n] = 2
        /\ log[1].query = update_query("k", "v0", "")
        /\ log[2].query = select_query("k")
        /\ r.id = log[2].new_state_id /\ r.qr = query_result_select("v0")

\* _results of node n has an entry for state ID id
C28_HasResult(rs, id) == \E r \in rs : r.id = id

\* C28: on every node, the step of apply() that executes the table query of
\* a command it does not skip leaves an entry for the command's new_state_id
\* in _results, and the history mutation of the command comes after it, with
\* the entry in place; the step that merges a schema change leaves _results
\* as it is, and no entry of _results is for the state ID of a schema change.
C28_ResultStoredBeforeHistory ==
    /\ [](\A n \in Nodes : \A r \in results[n] :
             \A i \in 1..Len(log) :
                 log[i].new_state_id = r.id => log[i].change = "table_query")
    /\ [][\A n \in Nodes :
            /\ C24_Executes(n) =>
                   /\ C28_HasResult(results'[n], log[applier'[n].idx].new_state_id)
                   /\ history'[n] = history[n]
            /\ (/\ applier[n].pc = "idle" /\ applier'[n].pc = "history_append"
                /\ log[applier'[n].idx].change = "schema_change") =>
                   results'[n] = results[n]
            /\ (/\ applier[n].pc = "history_append" /\ applier'[n].pc = "idle"
                /\ log[applier[n].idx].change = "table_query") =>
                   /\ C28_HasResult(results[n], log[applier[n].idx].new_state_id)
                   /\ results'[n] = results[n]]_vars

\* both nodes have applied a schema change and a table query, and each holds
\* one result, the one of the table query
C28_Witness ==
    \E i, j \in 1..Len(log) :
        /\ log[i].change = "schema_change" /\ log[j].change = "table_query"
        /\ \A n \in Nodes :
             /\ applied[n] >= i /\ applied[n] >= j /\ applier[n].pc = "idle"
             /\ Len(applyLog[n]) = applied[n]
             /\ results[n] = {[id |-> log[j].new_state_id, qr |-> query_result_none]}

\* C29 as stated: once the proposer has taken the result of its command with
\* get_query_result, _results of its node holds no entry for the command's
\* new_state_id.
C29_TakenIsGone ==
    \A p \in Procs :
        res[p] \in {"result_taken", "result_removed"} =>
            ~C28_HasResult(results[NodeOf(p)], cmd[p].new_state_id)

\* C29, amended: get_query_result leaves the entry in _results (moved from);
\* it is gone once the proposer has called remove_query_result as well.
C29_RemovedIsGone ==
    \A p \in Procs :
        /\ res[p] = "result_taken" =>
               C28_HasResult(results[NodeOf(p)], cmd[p].new_state_id)
        /\ res[p] = "result_removed" =>
               ~C28_HasResult(results[NodeOf(p)], cmd[p].new_state_id)

\* a proposer has taken and removed the result of its select, which held a
\* value, while the other node still holds its entry for the command
C29_Witness ==
    \E p \in Procs : \E n \in Nodes \ {NodeOf(p)} :
        /\ res[p] = "result_removed"
        /\ cmd[p].query.type = "select"
        /\ kv[NodeOf(p)][cmd[p].query.key].present
        /\ C28_HasResult(results[n], cmd[p].new_state_id)

\* proposer p is in add_entry_unguarded, or has returned from it
C30_Unguarded(p) == cmd[p].change = "table_query"

\* C30: a proposer in add_entry_unguarded holds no unit of _operation_mutex
\* or _read_apply_mutex, waits for no read barrier and never ends with
\* group0_concurrent_modification; its call leaves both mutexes as they are;
\* the command of prepare_command(table_query) has no prev_state_id, and
\* apply() never skips it.
C30_UnguardedSubmission ==
    /\ [](\A p \in Procs :
             C30_Unguarded(p) =>
                 /\ guard[p] = NoGuard
                 /\ pc[p] \notin {"operation_mutex", "read_barrier", "guard"}
                 /\ res[p] # "group0_concurrent_modification")
    /\ [](\A i \in 1..Len(log) :
             log[i].change = "table_query" => log[i].prev_state_id = Nullopt)
    /\ [][\A p \in Procs :
            (C30_Unguarded(p)' /\ pc[p] = "idle" /\ pc'[p] = "submit") =>
                /\ operation_mutex' = operation_mutex
                /\ read_apply_mutex' = read_apply_mutex]_vars
    /\ [][\A n \in Nodes :
            (/\ applier[n].pc = "idle" /\ applied[n] < Len(log)
             /\ log[applied[n] + 1].change = "table_query"
             /\ C4_ApplyStep(n)) =>
                applier'[n] = [pc |-> "history_append", idx |-> applied[n] + 1]]_vars

\* the command of a table query was committed after another proposer of the
\* node had taken _operation_mutex, and waits to be applied while that
\* proposer holds a guard with both mutexes
C30_Witness ==
    \E p, r \in Procs :
        /\ p # r /\ NodeOf(p) = NodeOf(r)
        /\ C30_Unguarded(p) /\ pc[p] = "wait_applied"
        /\ applied[NodeOf(p)] < waitIdx[p]
        /\ pc[r] = "guard" /\ guard[r].read_apply_mutex_holder = 1
        /\ guard[r].operation_mutex_holder = 1

\* start_operation of p returns a guard in this step
C31_Returns(p) == pc[p] # "guard" /\ pc'[p] = "guard"

\* C31: where group 0 is not enabled, start_operation never waits for
\* _operation_mutex or at the read barrier; the step in which it returns
\* leaves both mutexes of the node as they were, and the guard it returns
\* holds no unit of either, has the zero ID as observed_group0_state_id and a
\* new_group0_state_id that is not zero and was not generated before.
C31_LegacyGuard ==
    /\ [](\A p \in Procs :
            ~enabled[NodeOf(p)] => pc[p] \notin {"operation_mutex", "read_barrier"})
    /\ [][\A p \in Procs :
            (~enabled[NodeOf(p)] /\ C31_Returns(p)) =>
                /\ operation_mutex' = operation_mutex
                /\ read_apply_mutex' = read_apply_mutex
                /\ guard'[p].operation_mutex_holder = 0
                /\ guard'[p].read_apply_mutex_holder = 0
                /\ guard'[p].observed_group0_state_id = ZeroUUID
                /\ guard'[p].new_group0_state_id # ZeroUUID
                /\ guard'[p].new_group0_state_id \notin issued
                /\ guard'[p].new_group0_state_id \in issued']_vars

\* two proposers of a node without group 0 hold guards at once, with
\* different new state IDs, and both mutexes of the node are free
C31_Witness ==
    \E p, r \in Procs :
        /\ p # r /\ NodeOf(p) = NodeOf(r) /\ ~enabled[NodeOf(p)]
        /\ pc[p] = "guard" /\ pc[r] = "guard"
        /\ guard[p].observed_group0_state_id = ZeroUUID
        /\ guard[p].new_group0_state_id # guard[r].new_group0_state_id
        /\ guard[p].new_group0_state_id # ZeroUUID
        /\ operation_mutex[NodeOf(p)] = 1 /\ read_apply_mutex[NodeOf(p)] = 1

\* the greater of two timestamps
C32_Max(a, b) == IF a >= b THEN a ELSE b

\* C32: the ID generate_group0_state_id returns for a non-zero predecessor P
\* has the microsecond timestamp max(now, micros(P) + 1) and is greater than
\* P, whatever the clock shows; for the zero predecessor the timestamp is
\* now.
C32_GeneratedTimestamp ==
    gen # NoGen =>
        IF gen.prev_state_id # ZeroUUID
        THEN /\ micros_timestamp(gen.id) =
                    C32_Max(gen.now, micros_timestamp(gen.prev_state_id) + 1)
             /\ gen.id > gen.prev_state_id
        ELSE micros_timestamp(gen.id) = gen.now

\* an ID was generated from a predecessor whose timestamp lies ahead of the
\* clock, after one generated at the same microsecond as its predecessor
C32_Witness ==
    /\ gen # NoGen /\ gen.prev_state_id # ZeroUUID
    /\ gen.now < micros_timestamp(gen.prev_state_id)
    /\ \E a, b \in issued :
         /\ a < b /\ b = gen.prev_state_id
         /\ micros_timestamp(b) = micros_timestamp(a) + 1
         /\ micros_timestamp(b) > MaxGenClock

\* the tables of node n are left as they are
C33_TablesUnchanged(n) ==
    history'[n] = history[n] /\ schema'[n] = schema[n] /\ kv'[n] = kv[n]

\* C33: transfer_snapshot pulls the peer's schema and history mutations
\* without taking _read_apply_mutex and without writing; it then takes the
\* mutex, merges all the schema mutations, and after that writes the history
\* mutation and releases the mutex; the mutex is held from the merge to the
\* history write and apply is not inside a command then.  A reply without
\* canonical mutations or without a history mutation ends the transfer with
\* the mutex and all tables of the node as they were.
C33_TransferSnapshotOrder ==
    /\ [](\A n \in Nodes :
            /\ snap[n].pc = "merged" =>
                   read_apply_mutex[n] = 0 /\ applier[n].pc = "idle"
            /\ snap[n].pc = "internal_error" =>
                   snap[n].history = <<>> /\ snap[n].schema = {})
    /\ [][\A n \in Nodes :
            /\ (snap[n].pc # "pulled" /\ snap'[n].pc = "pulled") =>
                   /\ C33_TablesUnchanged(n)
                   /\ read_apply_mutex'[n] = read_apply_mutex[n]
                   /\ \E from \in Nodes \ {n} :
                        /\ snap'[n].history = history[from]
                        /\ snap'[n].schema = schema[from]
            /\ (snap[n].pc = "pulled" /\ snap'[n].pc # "pulled") =>
                   /\ snap'[n].pc = "merged"
                   /\ read_apply_mutex[n] = 1 /\ read_apply_mutex'[n] = 0
                   /\ schema'[n] = schema[n] \cup snap[n].schema
                   /\ history'[n] = history[n] /\ kv'[n] = kv[n]
            /\ (snap[n].pc = "merged" /\ snap'[n].pc # "merged") =>
                   /\ RangeOf(history'[n]) = RangeOf(history[n]) \cup RangeOf(snap[n].history)
                   /\ schema'[n] = schema[n] /\ kv'[n] = kv[n]
                   /\ read_apply_mutex'[n] = 1
            /\ (snap'[n].pc = "internal_error" /\ snap'[n] # snap[n]) =>
                   /\ snap[n].pc \in {"idle", "internal_error"}
                   /\ C33_TablesUnchanged(n)
                   /\ read_apply_mutex'[n] = read_apply_mutex[n]
                   /\ applied'[n] = applied[n]
            /\ snap[n].pc \in {"idle", "internal_error"} =>
                   snap'[n].pc \in {"idle", "internal_error", "pulled"}]_vars

\* a node that applied nothing itself holds the apply lock inside a
\* transfer: the peer's schema is merged, the history is still to be written
C33_Witness ==
    \E n \in Nodes :
        /\ snap[n].pc = "merged" /\ read_apply_mutex[n] = 0
        /\ applyLog[n] = <<>> /\ history[n] = <<>>
        /\ schema[n] # {} /\ snap[n].history # <<>>

\* the history of node n has the state ID without apply on n having written
\* it: a snapshot transfer installed it
C34_FromSnapshot(n, id) ==
    /\ group0_history_contains(history[n], id)
    /\ \A a \in 1..Len(applyLog[n]) :
           ~(applyLog[n][a].id = id /\ applyLog[n][a].did = "applied")

\* apply on node n begins the command c, whose state ID a snapshot installed
C34_AppliesTransferred(n, c) ==
    /\ applier[n].pc = "idle" /\ applied[n] < Len(log)
    /\ c = log[applied[n] + 1]
    /\ C34_FromSnapshot(n, c.new_state_id)
    /\ C4_ApplyStep(n)

\* the step of apply on node n is a no-op
C34_NoOp(n) ==
    /\ history'[n] = history[n] /\ schema'[n] = schema[n]
    /\ kv'[n] = kv[n] /\ results'[n] = results[n]
    /\ applier'[n] = IdleApplier /\ applied'[n] = applied[n] + 1

C35_SnapshotCallsChangeNothing ==
    [][\A n \in Nodes :
          snapshots'[n] # snapshots[n] =>
              /\ history' = history /\ schema' = schema /\ kv' = kv
              /\ operation_mutex' = operation_mutex
              /\ read_apply_mutex' = read_apply_mutex
              /\ results' = results
              /\ applied' = applied /\ applier' = applier
              /\ \A id \in snapshots'[n].taken \ snapshots[n].taken :
                     id \notin SnapshotsTaken]_vars

\* a node whose tables are written took a snapshot, loaded it and dropped
\* it while apply holds the apply lock inside a command
C35_Witness ==
    \E n \in Nodes : \E id \in SnapshotIds :
        /\ id \in snapshots[n].taken
        /\ id \in snapshots[n].loaded /\ id \in snapshots[n].dropped
        /\ history[n] # <<>> /\ kv[n]["k"].present
        /\ applier[n].pc = "history_append" /\ read_apply_mutex[n] = 0

\* the partition key is restricted by a single equality with a constant
C36_KeyEquality(s) ==
    LET r == s.partition_key_restrictions IN
    /\ r.conjunction /\ Len(r.children) = 1
    /\ r.children[1].binary /\ r.children[1].column = "partition_key"
    /\ r.children[1].op = "EQ" /\ r.children[1].rhs = "constant"

\* a SELECT that selects something else than exactly the value column, or
\* whose partition key is not restricted by a single equality with a constant
C36_SelectViolates(s) ==
    /\ s.class = "primary_key_select_statement"
    /\ \/ s.selection # [trivial |-> TRUE, columns |-> <<"value">>]
       \/ ~C36_KeyEquality(s)

\* an UPDATE with other than one constant column assignment, with more than
\* one condition or a condition that is no equality, or without a
\* partition-key equality
C36_UpdateViolates(s) ==
    /\ s.class = "modification_statement"
    /\ \/ Len(s.column_operations) # 1
       \/ \E i \in 1..Len(s.column_operations) :
              s.column_operations[i].expression # "constant"
       \/ Len(s.regular_conditions) > 1
       \/ \E i \in 1..Len(s.regular_conditions) : s.regular_conditions[i].op # "EQ"
       \/ ~C36_KeyEquality(s)

\* a SELECT without any restriction of the partition key: a full-table scan
C36_FullScan(s) ==
    /\ s.class = "primary_key_select_statement"
    /\ s.partition_key_restrictions = [conjunction |-> TRUE, children |-> <<>>]

\* the query a statement within the restrictions stands for
C36_QueryOf(s) ==
    IF s.class = "primary_key_select_statement"
    THEN select_query(s.partition_key_restrictions.children[1].value)
    ELSE update_query(s.partition_key_restrictions.children[1].value,
                      s.column_operations[1].value,
                      IF s.regular_conditions = <<>> THEN ""
                      ELSE s.regular_conditions[1].value)

C37_AppliedBefore(n, id) ==
    \E a \in 1..Len(applyLog[n]) :
        applyLog[n][a].id = id /\ applyLog[n][a].did = "applied"

\* apply on node n executes, or ends, a command it has applied before
C37_AppliesAgain(n) ==
    \/ /\ applier[n].pc = "idle" /\ applier'[n].pc = "history_append"
       /\ C37_AppliedBefore(n, log[applier'[n].idx].new_state_id)
    \/ /\ applier[n].pc = "history_append" /\ applier'[n].pc = "idle"
       /\ C37_AppliedBefore(n, log[applier[n].idx].new_state_id)

\* C37: when a command submitted by add_entry_unguarded is in the log more
\* than once, every application after the first on a node leaves the k/v
\* table (values and timestamps), the history and the query results of the
\* node as they were.
C37_OnlyFirstApplicationHasEffect ==
    [][\A n \in Nodes :
          C37_AppliesAgain(n) =>
              /\ kv'[n] = kv[n]
              /\ history'[n] = history[n]
              /\ results'[n] = results[n]]_vars

\* what holds of C37: a later application leaves the history and the stored
\* results as they were.
C37_LaterApplicationKeepsHistoryAndResults ==
    [][\A n \in Nodes :
          C37_AppliesAgain(n) =>
              history'[n] = history[n] /\ results'[n] = results[n]]_vars

\* a node applied update{k, v0}, then another proposer's conditional
\* update{k, v1 if v0}, then the first command again: k is v0 again
C37_Witness ==
    \E n \in Nodes :
        /\ Len(log) = 3 /\ log[1] = log[3] /\ log[1] # log[2]
        /\ log[1].query = update_query("k", "v0", "")
        /\ log[2].query = update_query("k", "v1", "v0")
        /\ Len(applyLog[n]) = 3
        /\ \A a \in 1..3 : applyLog[n][a].did = "applied" /\ applyLog[n][a].idx = a
        /\ kv[n]["k"].value = "v0"

\* apply on node n writes the history_append of the command it is in
C38_Appends(n) == applier[n].pc = "history_append" /\ applier'[n].pc = "idle"

C39_AddEntryCalled(p) == pc[p] = "guard" /\ pc'[p] \notin {"guard", "idle"}

\* add_entry released the apply lock of the guard once, and submits
C39_ReleasedOnce(p) ==
    /\ guard[p].read_apply_mutex_holder = 1
    /\ guard'[p].read_apply_mutex_holder = 0
    /\ read_apply_mutex'[NodeOf(p)] = read_apply_mutex[NodeOf(p)] + 1
    /\ pc'[p] = "submit"

\* C39: every guard start_operation returned, with group 0 enabled or not,
\* holds exactly one unit of _read_apply_mutex when add_entry is called with
\* it, so the assert of release_read_apply_mutex holds; add_entry returns
\* that unit once, before it submits, and the guard holds none while the
\* command is submitted or waited for.
C39_ReleaseAssertionHolds ==
    /\ [](\A p \in Procs :
            /\ pc[p] # "assert_failed"
            /\ pc[p] \in {"submit", "wait_applied"} =>
                   guard[p].read_apply_mutex_holder = 0)
    /\ [][\A p \in Procs : C39_AddEntryCalled(p) => C39_ReleasedOnce(p)]_vars

\* what holds of C39: the same on the nodes where group 0 is enabled.
C39_ReleaseAssertionHoldsWhereEnabled ==
    /\ [](\A p \in Procs :
            enabled[NodeOf(p)] =>
                /\ pc[p] # "assert_failed"
                /\ pc[p] \in {"submit", "wait_applied"} =>
                       guard[p].read_apply_mutex_holder = 0)
    /\ [][\A p \in Procs :
            (enabled[NodeOf(p)] /\ C39_AddEntryCalled(p)) => C39_ReleasedOnce(p)]_vars

\* add_entry was called with a guard of the legacy path: the assert failed
\* and the process of the node is gone, with the command never submitted
C39_Witness ==
    \E p \in Procs :
        /\ ~enabled[NodeOf(p)] /\ pc[p] = "assert_failed"
        /\ NodeOf(p) \in aborted
        /\ guard[p].read_apply_mutex_holder = 0
        /\ guard[p].new_group0_state_id # ZeroUUID
        /\ cmd[p].new_state_id = guard[p].new_group0_state_id
        /\ \A i \in 1..Len(log) : log[i] # cmd[p]

\* the holders of _read_apply_mutex on node n that are not apply
C40_OtherHolders(n) ==
    Cardinality(ApplyLockGuards(n)) + (IF snap[n].pc = "merged" THEN 1 ELSE 0)

\* C40: apply holds _read_apply_mutex for one command at a time.  It takes
\* the free mutex when it begins a command and has returned it when the
\* command is done, skipped or failed, so that between two commands, and
\* after a failure, only guards hold units; a command whose dispatch fails
\* ends apply with the history, the results and the applied index of the
\* node as they were.
C40_LockPerCommand ==
    /\ [](\A n \in Nodes :
            /\ applier[n].pc \in {"idle", "failed"} =>
                   read_apply_mutex[n] + C40_OtherHolders(n) = 1
            /\ applier[n].pc = "history_append" =>
                   read_apply_mutex[n] = 0 /\ C40_OtherHolders(n) = 0)
    /\ [][\A n \in Nodes :
            /\ (applier[n].pc = "idle" /\ applier'[n].pc = "history_append") =>
                   read_apply_mutex[n] = 1 /\ read_apply_mutex'[n] = 0
            /\ (applier[n].pc = "history_append" /\ applier'[n] # applier[n]) =>
                   applier'[n].pc = "idle" /\ read_apply_mutex'[n] = 1
            /\ (applier[n].pc = "idle" /\ applied'[n] = applied[n] + 1) =>
                   read_apply_mutex'[n] = read_apply_mutex[n]
            /\ (applier[n].pc = "idle" /\ applier'[n].pc = "failed") =>
                   /\ read_apply_mutex[n] = 1 /\ read_apply_mutex'[n] = 1
                   /\ history'[n] = history[n]
                   /\ results'[n] = results[n]
                   /\ applied'[n] = applied[n]
            /\ applier[n].pc = "failed" => applier'[n] = applier[n]]_vars

\* the dispatch of the second command of a node failed after the first was
\* applied: the history has the first state ID only, the second command left
\* no result, and the apply lock is free
C40_Witness ==
    \E n \in Nodes :
        /\ applier[n].pc = "failed" /\ applier[n].idx = 2 /\ applied[n] = 1
        /\ Len(applyLog[n]) = 2 /\ applyLog[n][1].did = "applied"
        /\ applyLog[n][2].did = "failed"
        /\ RangeOf(history[n]) = {log[1].new_state_id}
        /\ log[2].new_state_id # log[1].new_state_id
        /\ log[2].change = "table_query"
        /\ ~C28_HasResult(results[n], log[2].new_state_id)
        /\ read_apply_mutex[n] = 1

====
